---------------------------- MODULE Spec2Model ----------------------------
(***************************************************************************)
(* Model of the Ledger hardware-wallet signing adapter (ckb-ledger) of     *)
(* ckb-cli: derivation handles bound to one device session, the deferred   *)
(* single-shot signer, the rebuild of the AnnotatedTransaction pre-image,  *)
(* the chunked sign-streaming APDU protocol and the parse of the final     *)
(* response.                                                               *)
(*                                                                         *)
(* Two specifications are given.  Spec is the adapter as its callers drive *)
(* it: handles are created, signers are begun and invoked, public keys are *)
(* queried, all on the one thread that owns the session.  ChunkSpec runs   *)
(* the `chunk` closure and the response parse of begin_sign_recoverable on *)
(* every byte string of a bounded length, the empty one included.          *)
(***************************************************************************)
EXTENDS Integers, Sequences, FiniteSets, TLC

(***************************************************************************)
(* Bounds of the model.                                                    *)
(***************************************************************************)
\* longest byte string handed to the chunk closure in ChunkSpec
MaxMsgLen == 500
\* length of the long `raw` field of the transactions signed in Spec
BigRawLen == 210
\* length of the short `raw` field of the transactions signed in Spec
SmallRawLen == 5

(***************************************************************************)
(* Program constants.                                                      *)
(***************************************************************************)
MAX_APDU_SIZE == 230

FIRST == 0
NEXT == 1
CHANGE_PATH == 16
IS_CONTEXT == 32
NO_FALLBACK == 64
LAST_MARKER == 128

\* cla and ins of the sign APDU, and its p2
SIGN_CLA == 128
SIGN_INS == 3
SIGN_P2 == 0

(***************************************************************************)
(* Bytes and bit operations on u8.                                         *)
(***************************************************************************)
Byte == 0..255

Min(a, b) == IF a < b THEN a ELSE b

Pow2(k) == CASE k = 0 -> 1 [] k = 1 -> 2 [] k = 2 -> 4 [] k = 3 -> 8
             [] k = 4 -> 16 [] k = 5 -> 32 [] k = 6 -> 64 [] k = 7 -> 128

Bit(x, k) == (x \div Pow2(k)) % 2

RECURSIVE BitOrFrom(_, _, _)
BitOrFrom(a, b, k) ==
    IF k > 7 THEN 0
    ELSE (IF Bit(a, k) = 1 \/ Bit(b, k) = 1 THEN Pow2(k) ELSE 0)
         + BitOrFrom(a, b, k + 1)

\* `a | b` on bitflags of a u8
BitOr(a, b) == BitOrFrom(a, b, 0)

RECURSIVE BitAndFrom(_, _, _)
BitAndFrom(a, b, k) ==
    IF k > 7 THEN 0
    ELSE (IF Bit(a, k) = 1 /\ Bit(b, k) = 1 THEN Pow2(k) ELSE 0)
         + BitAndFrom(a, b, k + 1)

BitAnd(a, b) == BitAndFrom(a, b, 0)

\* `x as u8`
AsU8(x) == x % 256


(***************************************************************************)
(* Parsing primitives of the APDU codec (parse.rs).  Each takes the rest   *)
(* of the buffer and gives the value read and the new rest, or an error.   *)
(***************************************************************************)
\* split_off_at(&mut bytes, at): the first `at` bytes, or UnexpectedEndOfData
split_off_at(bytes, at) ==
    IF Len(bytes) < at
    THEN [ok |-> FALSE, err |-> "UnexpectedEndOfData", head |-> <<>>, rest |-> bytes]
    ELSE [ok |-> TRUE, err |-> "", head |-> SubSeq(bytes, 1, at),
          rest |-> SubSeq(bytes, at + 1, Len(bytes))]

\* split_first(&mut bytes): the first byte, or UnexpectedEndOfData
split_first(bytes) ==
    IF Len(bytes) = 0
    THEN [ok |-> FALSE, err |-> "UnexpectedEndOfData", first |-> 0, rest |-> bytes]
    ELSE [ok |-> TRUE, err |-> "", first |-> Head(bytes), rest |-> Tail(bytes)]

\* assert_nothing_left(bytes): TrailingData unless the buffer is used up
assert_nothing_left(bytes) ==
    IF Len(bytes) = 0
    THEN [ok |-> TRUE, err |-> ""]
    ELSE [ok |-> FALSE, err |-> "TrailingData"]

(***************************************************************************)
(* Child numbers and derivation paths.  A ChildNumber is Normal{index} or  *)
(* Hardened{index} with index < 2^31; as a u32 the hardened bit is bit 31. *)
(* The u32 is kept as its four bytes: 2^31 + index is beyond the integers  *)
(* TLC computes with.                                                      *)
(***************************************************************************)
Normal(i) == [hardened |-> FALSE, index |-> i]
Hardened(i) == [hardened |-> TRUE, index |-> i]

\* the top byte of u32::from(child_num): bits 24..30 of the index, bit 31 the
\* hardened flag
TopByte(child_num) ==
    (child_num.index \div 16777216) + (IF child_num.hardened THEN 128 ELSE 0)

\* u32::from(child_num).to_le_bytes()
to_le_bytes(child_num) ==
    << child_num.index % 256,
       (child_num.index \div 256) % 256,
       (child_num.index \div 65536) % 256,
       TopByte(child_num) >>

\* write_u32::<BigEndian>(u32::from(child_num))
to_be_bytes(child_num) ==
    << TopByte(child_num),
       (child_num.index \div 65536) % 256,
       (child_num.index \div 256) % 256,
       child_num.index % 256 >>

\* (n as u32).to_le_bytes() of a length or an offset, n < 2^31
U32LE(n) ==
    << n % 256, (n \div 256) % 256, (n \div 65536) % 256, n \div 16777216 >>

\* the u32 read from four little-endian bytes
ReadU32LE(b) == b[1] + 256 * b[2] + 65536 * b[3] + 16777216 * b[4]

RECURSIVE Flatten(_)
\* the concatenation of a sequence of byte strings
Flatten(seqs) ==
    IF Len(seqs) = 0 THEN <<>>
    ELSE IF Len(seqs) = 1 THEN seqs[1]
    ELSE LET half == Len(seqs) \div 2
         IN  Flatten(SubSeq(seqs, 1, half)) \o Flatten(SubSeq(seqs, half + 1, Len(seqs)))


(***************************************************************************)
(* The AnnotatedTransaction of the binary schema: a length-prefixed table  *)
(* of five fields, sign_path and change_path (each a Bip32, a vector of    *)
(* 4-byte Uint32 items), input_count, raw and witnesses.  The last two are *)
(* kept as the byte strings they serialise to.  A table is its total size, *)
(* one offset per field, then the fields; a Bip32 is its item count, then  *)
(* its items (sizes and offsets are 4 little-endian bytes).                *)
(***************************************************************************)
FIELD_COUNT == 5

HeaderSize == 4 + 4 * FIELD_COUNT

\* Bip32::as_slice
Bip32Bytes(path) == U32LE(Len(path)) \o Flatten(path)

\* the serialised fields of a transaction, in schema order
FieldBytes(tx) ==
    << Bip32Bytes(tx.sign_path), Bip32Bytes(tx.change_path), tx.input_count,
       tx.raw, tx.witnesses >>

RECURSIVE SumLen(_, _)
\* the total length of the first n byte strings of seqs
SumLen(seqs, n) == IF n = 0 THEN 0 ELSE Len(seqs[n]) + SumLen(seqs, n - 1)

\* AnnotatedTransaction::as_slice
as_slice(tx) ==
    LET f == FieldBytes(tx)
    IN  U32LE(HeaderSize + SumLen(f, FIELD_COUNT))
        \o Flatten([i \in 1..FIELD_COUNT |-> U32LE(HeaderSize + SumLen(f, i - 1))])
        \o Flatten(f)

\* the 4 bytes at byte offset off (counted from 0) of a buffer
WordAt(bytes, off) == SubSeq(bytes, off + 1, off + 4)

\* offset i of a table's header, i in 1..FIELD_COUNT; the total size stands
\* for the end of the last field
OffsetAt(bytes, i) ==
    IF i > FIELD_COUNT THEN ReadU32LE(WordAt(bytes, 0))
    ELSE ReadU32LE(WordAt(bytes, 4 * i))

\* the bytes of field i of a table whose header has been verified
FieldAt(bytes, i) == SubSeq(bytes, OffsetAt(bytes, i) + 1, OffsetAt(bytes, i + 1))

\* Bip32::verify: an item count followed by exactly that many 4-byte items
Bip32Verify(b) == Len(b) >= 4 /\ Len(b) = 4 + 4 * ReadU32LE(WordAt(b, 0))

\* the items of a verified Bip32
Bip32Items(b) ==
    [i \in 1..ReadU32LE(WordAt(b, 0)) |-> WordAt(b, 4 * i)]

\* AnnotatedTransaction::verify: the checks from_slice makes before it
\* accepts a buffer
Verify(bytes) ==
    /\ Len(bytes) >= HeaderSize
    /\ ReadU32LE(WordAt(bytes, 0)) = Len(bytes)
    /\ OffsetAt(bytes, 1) = HeaderSize
    /\ \A i \in 1..FIELD_COUNT : OffsetAt(bytes, i) <= OffsetAt(bytes, i + 1)
    /\ Bip32Verify(FieldAt(bytes, 1))
    /\ Bip32Verify(FieldAt(bytes, 2))
    /\ Len(FieldAt(bytes, 3)) = 4

\* AnnotatedTransaction::from_slice of a buffer that verifies
from_slice(bytes) ==
    [sign_path |-> Bip32Items(FieldAt(bytes, 1)),
     change_path |-> Bip32Items(FieldAt(bytes, 2)),
     input_count |-> FieldAt(bytes, 3),
     raw |-> FieldAt(bytes, 4),
     witnesses |-> FieldAt(bytes, 5)]


(***************************************************************************)
(* The pure steps of LedgerCap: the path data of public_key, the rebuild   *)
(* of the pre-image in the signer closure, the chunk loop's length and p1, *)
(* and the parse of the responses.                                         *)
(***************************************************************************)
\* canonical derivation policy of the chain: m/44'/309'/...
is_valid_derivation_path(path) ==
    Len(path) >= 2 /\ path[1] = Hardened(44) /\ path[2] = Hardened(309)

\* public_key: one length byte, then each child number big-endian
PathData(path) ==
    << AsU8(Len(path)) >> \o Flatten([i \in 1..Len(path) |-> to_be_bytes(path[i])])

\* the closure's raw_path: each child number as the four octets of a Uint32,
\* nth0 the lowest
raw_path(path) == [i \in 1..Len(path) |-> to_le_bytes(path[i])]

\* a rebuild that always puts the sign_path in change_path
ChangePathFor_AlwaysSignPath(tx, sign_path) == sign_path

\* the change_path put on the wire: the sign_path iff the caller's is empty
ChangePathFor(tx, sign_path) ==
    IF Len(tx.change_path) = 0 THEN sign_path ELSE tx.change_path

\* raw_message: the caller's transaction with sign_path and change_path set
raw_message(path, message) ==
    LET message_with_sign_path == from_slice(message)
        sign_path == raw_path(path)
    IN  [message_with_sign_path EXCEPT
            !.sign_path = sign_path,
            !.change_path = ChangePathFor(message_with_sign_path, sign_path)]

\* a loop that sends all that is left as one chunk
ChunkLength_NoCap(message) == Len(message)

\* length of the next chunk
ChunkLength(message) == Min(Len(message), MAX_APDU_SIZE)

\* a loop that marks every chunk but the last
ChunkP1_Swapped(base, rest_length) ==
    IF rest_length > 0 THEN BitOr(base, LAST_MARKER) ELSE base

\* a loop that marks every chunk
ChunkP1_AlwaysLast(base, rest_length) == BitOr(base, LAST_MARKER)

\* p1 of a chunk, from the loop's base and the bytes left after it
ChunkP1(base, rest_length) ==
    IF rest_length > 0 THEN base ELSE BitOr(base, LAST_MARKER)

\* an APDU whose length field is taken from the slice before the split
SignApdu_RestLength(o, base, message) ==
    LET length == ChunkLength(message)
        chunk == split_off_at(message, length)
    IN  [by |-> o, cmd |-> "sign", cla |-> SIGN_CLA, ins |-> SIGN_INS,
         p1 |-> ChunkP1(base, Len(chunk.rest)), p2 |-> SIGN_P2,
         length |-> AsU8(Len(message)), data |-> chunk.head]

\* the sign APDU of one loop iteration
SignApdu(o, base, message) ==
    LET length == ChunkLength(message)
        chunk == split_off_at(message, length)
    IN  [by |-> o, cmd |-> "sign", cla |-> SIGN_CLA, ins |-> SIGN_INS,
         p1 |-> ChunkP1(base, Len(chunk.rest)), p2 |-> SIGN_P2,
         length |-> AsU8(Len(chunk.head)), data |-> chunk.head]

\* RecoveryId::from_i32
RecoveryIdOk(id) == id \in 0..3

\* RecoverableSignature::from_compact accepts the 64 bytes unless a scalar
\* overflows the group order; the scalar of 32 bytes 0xff stands for those
FromCompactOk(data) ==
    /\ \E i \in 1..32 : data[i] # 255
    /\ \E i \in 33..64 : data[i] # 255

Ok(sig) == [tag |-> "Ok", err |-> "", sig |-> sig]
Err(e) == [tag |-> "Err", err |-> e, sig |-> <<>>]
NoResult == [tag |-> "none", err |-> "", sig |-> <<>>]

\* a parse that looks for trailing bytes before it reads the recovery id
ParseSignature_LengthFirst(raw_signature) ==
    LET data == split_off_at(raw_signature, 64)
        first == split_first(data.rest)
        left == assert_nothing_left(first.rest)
    IN  IF ~data.ok THEN Err(data.err)
        ELSE IF ~first.ok THEN Err(first.err)
        ELSE IF ~left.ok THEN Err(left.err)
        ELSE IF ~RecoveryIdOk(first.first) THEN Err("CryptoError")
        ELSE IF ~FromCompactOk(data.head) THEN Err("CryptoError")
        ELSE Ok(data.head \o << first.first >>)

\* the parse of the final sign response: 64 bytes, the recovery id, nothing
\* left, then the signature is built
ParseSignature(raw_signature) ==
    LET data == split_off_at(raw_signature, 64)
        first == split_first(data.rest)
        left == assert_nothing_left(first.rest)
    IN  IF ~data.ok THEN Err(data.err)
        ELSE IF ~first.ok THEN Err(first.err)
        ELSE IF ~RecoveryIdOk(first.first) THEN Err("CryptoError")
        ELSE IF ~left.ok THEN Err(left.err)
        ELSE IF ~FromCompactOk(data.head) THEN Err("CryptoError")
        ELSE Ok(data.head \o << first.first >>)

\* PublicKey::from_slice: a compressed or an uncompressed point
PublicKeyOk(raw) ==
    \/ Len(raw) = 33 /\ raw[1] \in {2, 3}
    \/ Len(raw) = 65 /\ raw[1] = 4

\* the parse of the extend_public_key response: length byte, key, nothing left
ParsePublicKey(resp) ==
    LET first == split_first(resp)
        raw_public_key == split_off_at(first.rest, first.first)
        left == assert_nothing_left(raw_public_key.rest)
    IN  IF ~first.ok THEN Err(first.err)
        ELSE IF ~raw_public_key.ok THEN Err(raw_public_key.err)
        ELSE IF ~left.ok THEN Err(left.err)
        ELSE IF ~PublicKeyOk(raw_public_key.head) THEN Err("CryptoError")
        ELSE Ok(raw_public_key.head)


(***************************************************************************)
(* State.  One device session (the transport behind an Arc) is shared by   *)
(* every handle and every signer.  The caller keeps one LedgerCap, `cap`,  *)
(* which extended_privkey replaces; each operation in OpIds is one signer  *)
(* (begin_sign_recoverable, then its invocation) or one public_key call.   *)
(* The session's callers form one thread: `running` is the operation whose *)
(* call is on the stack, blocked in exchange or about to go on.            *)
(***************************************************************************)
VARIABLES
    cap,         \* the caller's LedgerCap: [bound, path]
    pc,          \* per operation: where it stands
    signerPath,  \* per operation: my_self.path, captured by the closure
    callerMsg,   \* per operation: the bytes the signer was invoked with
    wire,        \* per operation: raw_message.as_slice(), the wire payload
    message,     \* per operation: the chunk loop's remaining slice
    base,        \* per operation: the chunk loop's base flag
    response,    \* per operation: the response the chunk closure returned
    result,      \* per operation: what the call returned to its caller
    apduLog,     \* every APDU handed to the transport, in order
    inflight,    \* the APDUs handed to the transport and not yet answered
    transportFaults, \* the positions in apduLog of the exchanges that failed
    running      \* the operation that holds the thread, or NoOp

\* the key store (LedgerKeyStore), the devices around it and its caller
VARIABLES
    attached,           \* the device on the bus, or NoDevice
    discovered_devices, \* LedgerKeyStore.discovered_devices, as its values
    opened,             \* the number of transports RawLedgerApp::new() has opened
    probe,              \* refresh of the last call: what it found and was answered
    ksCall,             \* the last call on the key store and what it returned
    borrowed,           \* the reference the last borrow_account returned
    heldCap,            \* the LedgerCap its caller derived from that reference
    seenId,             \* per device: the id its last opened session got
    spareCap,           \* a clone of the LedgerCap, kept by the caller
    openTransports      \* the transports that are open, by their number

\* the DAO subcommand: the chain as the index and the node see it
VARIABLES
    liveCells,          \* the live cells
    maxMature,          \* max_mature_number
    daoCall             \* the last query and what it returned

\* the sighash finalizer
VARIABLES
    submitted,          \* the transaction handed to sign, and the pass
    signCall,           \* the last call of sign and what it returned
    transacted          \* the last deposit, prepare or withdraw

sessionVars == << cap, pc, signerPath, callerMsg, wire, message, base, response,
                  result, apduLog, inflight, transportFaults, running >>
keyStoreVars == << attached, discovered_devices, opened, probe, ksCall,
                   borrowed, heldCap, seenId, spareCap, openTransports >>
daoVars == << liveCells, maxMature, daoCall >>
signVars == << submitted, signCall, transacted >>

vars == << cap, pc, signerPath, callerMsg, wire, message, base, response,
           result, apduLog, inflight, transportFaults, running,
           attached, discovered_devices, opened, probe, ksCall,
           borrowed, heldCap, seenId, spareCap, openTransports,
           liveCells, maxMature, daoCall,
           submitted, signCall, transacted >>

OpIds == {"op1", "op2"}
NoOp == "nobody"

NoCap == [bound |-> FALSE, path |-> <<>>]
NoResponse == [some |-> FALSE, data |-> <<>>]

\* the bytes of a buffer of length n the model fills in: byte i depends on i
\* with a period that no chunk length divides
Fill(n, seed) == [i \in 1..n |-> (seed + 3 * i) % 251]

(***************************************************************************)
(* Inputs of Spec.                                                         *)
(***************************************************************************)
\* paths handed to extended_privkey; the first two fail the policy
CandidatePaths ==
    { <<>>, << Hardened(44) >>,
      << Hardened(44), Hardened(309) >>,
      << Hardened(44), Hardened(309), Normal(70000) >> }

\* change paths and sign paths found in the callers' transactions
CallerPaths == { <<>>, raw_path(<< Hardened(44), Hardened(309), Hardened(1) >>) }

CallerTransactions ==
    { [sign_path |-> sp, change_path |-> cp, input_count |-> U32LE(1),
       raw |-> Fill(n, 7), witnesses |-> U32LE(4)] :
         sp \in CallerPaths, cp \in CallerPaths, n \in {SmallRawLen, BigRawLen} }

\* what callers invoke a signer with: serialised transactions, and a buffer
\* that is none
CallerMessages == { as_slice(tx) : tx \in CallerTransactions } \cup { <<>> }

\* a 65-byte response r || s || v
SigResponse(seed, v) == Fill(64, seed) \o << v >>

\* the responses of the device in Spec
SpecResponses == { <<>>, SigResponse(1, 1), Fill(64, 1) }

\* the responses of the device to extend_public_key
PubkeyResponses == { <<>>, << 33, 2 >> \o Fill(32, 9), << 33, 2 >> \o Fill(33, 9) }


\* the responses of the device in ChunkSpec: too short, well formed with
\* each kind of recovery id, a scalar that overflows, too long
ChunkResponses ==
    { <<>>, Fill(64, 1),
      SigResponse(1, 0), SigResponse(1, 3), SigResponse(1, 4), SigResponse(1, 255),
      [i \in 1..64 |-> 255] \o << 1 >>,
      SigResponse(1, 2) \o << 0 >>, SigResponse(1, 4) \o << 0 >> }

(***************************************************************************)
(* The key store: devices, sessions, the table of discovered devices.      *)
(***************************************************************************)
\* the number of transports the model lets RawLedgerApp::new() open
MaxOpens == 3

\* the devices that can be on the bus, one at a time
Devices == {"nanoA", "nanoB", "nanoC", "short", "long"}
NoDevice == "none"

\* what each device answers to get_wallet_id: nanoA and nanoB differ in
\* bytes 32..63 only, nanoC differs from both in bytes 0..31, and two
\* devices answer with one byte too few and one byte too many
WalletIdResponse(d) ==
    CASE d = "nanoA" -> Fill(32, 1) \o Fill(32, 2)
      [] d = "nanoB" -> Fill(32, 1) \o Fill(32, 3)
      [] d = "nanoC" -> Fill(32, 5) \o Fill(32, 2)
      [] d = "short" -> Fill(63, 1)
      [] OTHER       -> Fill(65, 1)

\* LedgerMasterCap: the id and the shared transport, named by its number
NoMaster == [id |-> <<>>, ledger_app |-> 0]
MasterCap(id, n) == [id |-> id, ledger_app |-> n]

\* the ids a caller asks borrow_account for
CallerIds == { Fill(32, 1), Fill(32, 5), Fill(32, 8) }

\* apdu::get_wallet_id
GetWalletIdApdu ==
    [by |-> "from_ledger", cmd |-> "get_wallet_id", cla |-> 128, p1 |-> 0,
     p2 |-> 0, length |-> 0, data |-> <<>>]

\* what refresh meets on the bus: RawLedgerApp::new() gives no transport
\* (found FALSE), or it gives one and the exchange of get_wallet_id on it
\* fails (ok FALSE) or is answered with data
NoOpening == [found |-> FALSE, ok |-> FALSE, data |-> <<>>]
Openings ==
    {NoOpening} \cup
    (IF attached = NoDevice
     THEN {}
     ELSE { [found |-> TRUE, ok |-> FALSE, data |-> <<>>],
            [found |-> TRUE, ok |-> TRUE, data |-> WalletIdResponse(attached)] })

\* every opening, whatever is on the bus
AllOpenings ==
    { NoOpening, [found |-> TRUE, ok |-> FALSE, data |-> <<>>] } \cup
    { [found |-> TRUE, ok |-> TRUE, data |-> WalletIdResponse(d)] : d \in Devices }

\* results of the key store's functions
KsOk(devices, master) ==
    [tag |-> "Ok", err |-> "", devices |-> devices, master |-> master]
KsErr(e, devices) ==
    [tag |-> "Err", err |-> e, devices |-> devices, master |-> NoMaster]

\* a session opened on a wallet-id response of 32 bytes or more, whose id is
\* its last 32 bytes
from_ledger_LaxTail(n, exch) ==
    IF ~exch.ok THEN KsErr("TransportError", {})
    ELSE IF Len(exch.data) < 32 THEN KsErr("UnexpectedEndOfData", {})
    ELSE KsOk({}, MasterCap(SubSeq(exch.data, Len(exch.data) - 31, Len(exch.data)), n))

\* LedgerMasterCap::from_ledger on transport n: the exchange, 32 bytes of
\* id, 32 bytes dropped, nothing left
from_ledger(n, exch) ==
    IF ~exch.ok THEN KsErr("TransportError", {})
    ELSE LET raw_wallet_id == split_off_at(exch.data, 32)
         IN  IF ~raw_wallet_id.ok THEN KsErr(raw_wallet_id.err, {})
             ELSE LET unused == split_off_at(raw_wallet_id.rest, 32)
                  IN  IF ~unused.ok THEN KsErr(unused.err, {})
                      ELSE LET nothing == assert_nothing_left(unused.rest)
                           IN  IF ~nothing.ok THEN KsErr(nothing.err, {})
                               ELSE KsOk({}, MasterCap(raw_wallet_id.head, n))

\* HashMap::insert on the table, keyed by id
InsertDevice(devices, master) ==
    { m \in devices : m.id # master.id } \cup {master}

\* a refresh that keeps the entries it finds in the table
refresh_NoClear(devices, n, opening) ==
    IF ~opening.found THEN KsOk(devices, NoMaster)
    ELSE LET ledger_app == from_ledger(n, opening)
         IN  IF ledger_app.tag = "Err" THEN KsErr(ledger_app.err, devices)
             ELSE KsOk(InsertDevice(devices, ledger_app.master), ledger_app.master)

\* a refresh that puts the table back when the session fails to open
refresh_Restore(devices, n, opening) ==
    IF ~opening.found THEN KsOk({}, NoMaster)
    ELSE LET ledger_app == from_ledger(n, opening)
         IN  IF ledger_app.tag = "Err" THEN KsErr(ledger_app.err, devices)
             ELSE KsOk(InsertDevice({}, ledger_app.master), ledger_app.master)

\* LedgerKeyStore::refresh: the table is cleared; a transport that opens
\* (its number is n) becomes a session and the table's one entry, and a
\* session that fails to open is the error of refresh
refresh(devices, n, opening) ==
    IF ~opening.found THEN KsOk({}, NoMaster)
    ELSE LET ledger_app == from_ledger(n, opening)
         IN  IF ledger_app.tag = "Err" THEN KsErr(ledger_app.err, {})
             ELSE KsOk(InsertDevice({}, ledger_app.master), ledger_app.master)

\* HashMap::get on the table
GetDevice(devices, id) ==
    IF \E m \in devices : m.id = id
    THEN CHOOSE m \in devices : m.id = id
    ELSE NoMaster

\* LedgerCap: the master and the path
NoLedgerCap == [bound |-> FALSE, path |-> <<>>, master |-> NoMaster]

\* an extended_privkey without the policy
extended_privkey_AnyPath(master, path) ==
    [tag |-> "Ok", err |-> "", path |-> path,
     cap |-> [bound |-> TRUE, path |-> path, master |-> master]]

\* LedgerMasterCap::extended_privkey as a function of the master and the path
extended_privkey(master, path) ==
    IF ~is_valid_derivation_path(path)
    THEN [tag |-> "Err", err |-> "InvalidDerivationPath", path |-> path,
          cap |-> NoLedgerCap]
    ELSE [tag |-> "Ok", err |-> "", path |-> path,
          cap |-> [bound |-> TRUE, path |-> path, master |-> master]]

\* the transports a set of sessions and a set of handles hold: each holds
\* one Arc<RawLedgerApp>
TransportsOf(masters) == { m.ledger_app : m \in masters \ {NoMaster} }
HandleTransports(caps) == TransportsOf({ c.master : c \in caps })

\* a transport that closes when its owner is dropped, whoever else uses it
Release_Owned(open, dropped, held) == open \ dropped

\* drop of Arc<RawLedgerApp>: of the transports whose holder is dropped,
\* those no other holder has are closed
Release(open, dropped, held) == open \ (dropped \ held)

\* the records of the last call and of its refresh
NoProbe == [dev |-> NoDevice, found |-> FALSE, ok |-> FALSE, data |-> <<>>]
KsCall(op, id, path, r, ids, master) ==
    [op |-> op, id |-> id, path |-> path, tag |-> r.tag, err |-> r.err,
     ids |-> ids, master |-> master]
FromDirCall ==
    KsCall("from_dir", <<>>, <<>>, KsOk({}, NoMaster), {}, NoMaster)

\* LedgerKeyStore::from_dir: LedgerKeyStore::new(), an empty table; nothing
\* is opened
KeyStoreFresh ==
    /\ attached = NoDevice
    /\ discovered_devices = {}
    /\ opened = 0
    /\ probe = NoProbe
    /\ ksCall = FromDirCall
    /\ borrowed = NoMaster
    /\ heldCap = NoLedgerCap
    /\ seenId = [d \in Devices |-> <<>>]
    /\ spareCap = NoLedgerCap
    /\ openTransports = {}

(***************************************************************************)
(* The DAO subcommand: live cells, their classification, their collection. *)
(***************************************************************************)
\* the number of live cells the model puts on the chain
MaxCells == 4

\* capacities are u64 numbers of shannons; a capacity is kept as its CKB
\* and the shannons left, 10^8 shannons being one CKB
ONE_CKB == 100000000
Amount(ckb, shannon) == [ckb |-> ckb, shannon |-> shannon]
ZeroAmount == Amount(0, 0)
AmountAdd(a, b) ==
    Amount(a.ckb + b.ckb + (a.shannon + b.shannon) \div ONE_CKB,
           (a.shannon + b.shannon) % ONE_CKB)
AmountGe(a, b) ==
    a.ckb > b.ckb \/ (a.ckb = b.ckb /\ a.shannon >= b.shannon)

\* ckb_sdk::constants::MIN_SECP_CELL_CAPACITY, 61 CKB
MIN_SECP_CELL_CAPACITY == Amount(61, 0)

\* LiveCellInfo, with the lock the index files it under and the data the
\* node returns for it
Cell(name, lock, type, data, ckb, number, tx_index) ==
    [out_point |-> name, lock |-> lock, type_hashes |-> type,
     data_bytes |-> Len(data), data |-> data, capacity |-> Amount(ckb, 0),
     number |-> number, tx_index |-> tx_index, output_index |-> 0]

Zeros(n) == [i \in 1..n |-> 0]

\* the cells the chain can hold: sighash cells of the address, two of them
\* cellbase outputs, a cell with a type script, a cell with data, DAO cells
\* of the address in deposit and in prepare, and a DAO cell of another lock
CellPool ==
    { Cell("c100", "me", "none", <<>>, 100, 3, 1),
      Cell("c300", "me", "none", <<>>, 300, 4, 2),
      Cell("c500", "me", "none", <<>>, 500, 8, 1),
      Cell("base7", "me", "none", <<>>, 150, 7, 0),
      Cell("base12", "me", "none", <<>>, 200, 12, 0),
      Cell("typed", "me", "other", Zeros(16), 142, 5, 1),
      Cell("data", "me", "none", << 1, 2, 3, 4 >>, 65, 6, 1),
      Cell("deposit", "me", "dao", Zeros(8), 102, 2, 1),
      Cell("prepare", "me", "dao", << 5 >> \o Zeros(7), 102, 9, 1),
      Cell("prepareHi", "me", "dao", Zeros(7) \o << 1 >>, 102, 9, 2),
      Cell("theirs", "other", "dao", Zeros(8), 102, 1, 1) }

\* the values get_max_mature_number returns
MaxMatureNumbers == {5, 10}

\* capacity + tx_fee of the calls of collect_sighash_cells
TargetCapacities ==
    { Amount(100, 0), Amount(339, 0), Amount(350, 1000), Amount(2000, 0) }

\* (number, tx_index, output_index) of a is before that of b
KeyBefore(a, b) ==
    \/ a.number < b.number
    \/ a.number = b.number /\ a.tx_index < b.tx_index
    \/ a.number = b.number /\ a.tx_index = b.tx_index
          /\ a.output_index < b.output_index

RECURSIVE SortedByKey(_)
\* sorted_by_key(|live| (live.number, live.tx_index, live.index.output_index))
SortedByKey(cells) ==
    IF cells = {} THEN <<>>
    ELSE LET first == CHOOSE c \in cells : \A d \in cells \ {c} : KeyBefore(c, d)
         IN  << first >> \o SortedByKey(cells \ {first})

\* IndexDatabase::get_live_cells_by_lock and get_live_cells_by_code with a
\* terminator that takes every cell
get_live_cells_by_lock(cells, lock_hash) ==
    SortedByKey({ c \in cells : c.lock = lock_hash })
get_live_cells_by_code(cells, code_hash) ==
    SortedByKey({ c \in cells : c.type_hashes = code_hash })

\* the elements of a sequence
Range(seq) == { seq[i] : i \in 1..Len(seq) }

\* DAOSubCommand::collect_dao_cells
collect_dao_cells(cells, lock_hash) ==
    SortedByKey(Range(get_live_cells_by_lock(cells, lock_hash))
                \cap Range(get_live_cells_by_code(cells, "dao")))

\* LittleEndian::read_u64 of eight bytes, as its four 16-bit limbs, the
\* lowest first
ReadU64LE(b) ==
    << b[1] + 256 * b[2], b[3] + 256 * b[4], b[5] + 256 * b[6], b[7] + 256 * b[8] >>
U64Zero == << 0, 0, 0, 0 >>

\* a classification that reads the lowest byte only
is_deposit_cell_LowByte(dao_cell) == dao_cell.data[1] = 0

\* is_deposit_cell and is_prepare_cell, the cell's data being there
is_deposit_cell(dao_cell) == ReadU64LE(SubSeq(dao_cell.data, 1, 8)) = U64Zero
is_prepare_cell(dao_cell) == ReadU64LE(SubSeq(dao_cell.data, 1, 8)) # U64Zero

\* results of the DAO subcommand's functions
DaoOk(cells, take) == [tag |-> "Ok", err |-> "", cells |-> cells, take |-> take]
DaoErr(e, take) == [tag |-> "Err", err |-> e, cells |-> <<>>, take |-> take]
DaoPanic == [tag |-> "Panic", err |-> "", cells |-> <<>>, take |-> ZeroAmount]
NoDaoResult == [tag |-> "none", err |-> "", cells |-> <<>>, take |-> ZeroAmount]

\* query_deposit_cells: the DAO cells, the assertion on their data_bytes,
\* then those get_cell_data and is_deposit_cell keep; rpc_ok is whether the
\* node answers get_live_cell with the cell
query_deposit_cells(cells, lock_hash, rpc_ok) ==
    LET dao_cells == collect_dao_cells(cells, lock_hash)
    IN  IF \E i \in 1..Len(dao_cells) : dao_cells[i].data_bytes # 8 THEN DaoPanic
        ELSE IF Len(dao_cells) > 0 /\ ~rpc_ok THEN DaoErr("cell is not found", ZeroAmount)
        ELSE DaoOk(SelectSeq(dao_cells, is_deposit_cell), ZeroAmount)

\* query_prepare_cells
query_prepare_cells(cells, lock_hash, rpc_ok) ==
    LET dao_cells == collect_dao_cells(cells, lock_hash)
    IN  IF \E i \in 1..Len(dao_cells) : dao_cells[i].data_bytes # 8 THEN DaoPanic
        ELSE IF Len(dao_cells) > 0 /\ ~rpc_ok THEN DaoErr("cell is not found", ZeroAmount)
        ELSE DaoOk(SelectSeq(dao_cells, is_prepare_cell), ZeroAmount)

\* utils::other::is_mature: not a cellbase output, or in the genesis block,
\* or old enough
is_mature(info, max_mature_number) ==
    \/ info.tx_index > 0
    \/ info.number = 0
    \/ info.number <= max_mature_number

\* the test of the terminator of collect_sighash_cells that leaves a cell out
Skipped(cell, max_mature_number) ==
    /\ ~(cell.type_hashes = "none" /\ cell.data_bytes = 0)
    /\ is_mature(cell, max_mature_number)

RECURSIVE Collect(_, _, _, _, _)
\* get_live_cells_by_lock under the terminator of collect_sighash_cells,
\* from the i-th cell of the lock on: a cell is left out, or counted and
\* pushed; the walk ends once enough is set
Collect(by_lock, i, acc, target_capacity, max_mature_number) ==
    IF i > Len(by_lock) THEN acc
    ELSE IF Skipped(by_lock[i], max_mature_number)
         THEN Collect(by_lock, i + 1, acc, target_capacity, max_mature_number)
         ELSE LET take_capacity == AmountAdd(acc.take, by_lock[i].capacity)
                  enough == \/ take_capacity = target_capacity
                            \/ AmountGe(take_capacity,
                                        AmountAdd(target_capacity, MIN_SECP_CELL_CAPACITY))
                  next == [cells |-> Append(acc.cells, by_lock[i]),
                           take |-> take_capacity, enough |-> enough]
              IN  IF enough THEN next
                  ELSE Collect(by_lock, i + 1, next, target_capacity,
                               max_mature_number)

\* a collection that returns what it has walked whether or not it is enough
collect_sighash_cells_NeverShort(cells, target_capacity, max_mature_number, rpc_ok) ==
    IF ~rpc_ok THEN DaoErr("rpc", ZeroAmount)
    ELSE LET walk == Collect(get_live_cells_by_lock(cells, "me"), 1,
                             [cells |-> <<>>, take |-> ZeroAmount, enough |-> FALSE],
                             target_capacity, max_mature_number)
         IN  DaoOk(walk.cells, walk.take)

\* collect_sighash_cells: get_max_mature_number, the walk, and its outcome
collect_sighash_cells(cells, target_capacity, max_mature_number, rpc_ok) ==
    IF ~rpc_ok THEN DaoErr("rpc", ZeroAmount)
    ELSE LET walk == Collect(get_live_cells_by_lock(cells, "me"), 1,
                             [cells |-> <<>>, take |-> ZeroAmount, enough |-> FALSE],
                             target_capacity, max_mature_number)
         IN  IF ~walk.enough THEN DaoErr("Capacity not enough", walk.take)
             ELSE DaoOk(walk.cells, walk.take)

\* the calls of the DAO subcommand
DaoOps == {"query_deposit_cells", "query_prepare_cells", "collect_sighash_cells"}

\* a call of the DAO subcommand: what it returned and the target capacity
\* it was given
Called(r, target_capacity) ==
    [tag |-> r.tag, err |-> r.err, cells |-> r.cells, take |-> r.take,
     target |-> target_capacity]

\* the DAO subcommand before any query, on an empty chain
DaoFresh ==
    /\ liveCells = {}
    /\ maxMature = 0
    /\ daoCall = [op \in DaoOps |-> Called(NoDaoResult, ZeroAmount)]

(***************************************************************************)
(* Transactions and the sighash finalizer of the DAO subcommand            *)
(* (dao/mod.rs: sign, install_sighash_lock, install_sighash_witness).      *)
(* WitnessArgs and the packed byte string are tables and vectors of the    *)
(* length-prefixed schema, modelled by their layout.                       *)
(***************************************************************************)
\* the bytes of the placeholder lock and of a signature: [0u8; 65]
LOCK_SIZE == 65

\* the length the finalizer asserts of the lock args
SIGHASH_ARGS_LEN == 20

\* Option<Bytes>
NoBytes == [some |-> FALSE, data |-> <<>>]
SomeBytes(data) == [some |-> TRUE, data |-> data]

WitnessArgsOf(lock, input_type, output_type) ==
    [lock |-> lock, input_type |-> input_type, output_type |-> output_type]

\* WitnessArgs::default()
WitnessArgsDefault == WitnessArgsOf(NoBytes, NoBytes, NoBytes)

\* the fields of the WitnessArgs table
WITNESS_FIELD_COUNT == 3

\* the header of the table: the total size and one offset per field
WitnessHeaderSize == 4 + 4 * WITNESS_FIELD_COUNT

\* packed::Bytes::as_slice(): the item count, then the items
PackedBytes(data) == U32LE(Len(data)) \o data

\* packed::BytesOpt::as_slice(): nothing, or the packed bytes
BytesOptBytes(opt) == IF opt.some THEN PackedBytes(opt.data) ELSE <<>>

\* WitnessArgs::as_bytes()
WitnessArgsAsBytes(w) ==
    LET lock == BytesOptBytes(w.lock)
        input_type == BytesOptBytes(w.input_type)
        output_type == BytesOptBytes(w.output_type)
        total == WitnessHeaderSize + Len(lock) + Len(input_type)
                    + Len(output_type)
    IN U32LE(total)
         \o U32LE(WitnessHeaderSize)
         \o U32LE(WitnessHeaderSize + Len(lock))
         \o U32LE(WitnessHeaderSize + Len(lock) + Len(input_type))
         \o lock \o input_type \o output_type

\* BytesOptReader::verify: empty, or a byte vector whose count is its length
BytesOptVerify(b) ==
    Len(b) = 0 \/ (Len(b) >= 4 /\ Len(b) = 4 + ReadU32LE(WordAt(b, 0)))

\* where field i of a WitnessArgs table starts; field 4 is the end
WitnessOffsetAt(bytes, i) ==
    IF i > WITNESS_FIELD_COUNT THEN Len(bytes)
    ELSE ReadU32LE(WordAt(bytes, 4 * i))

WitnessFieldAt(bytes, i) ==
    SubSeq(bytes, WitnessOffsetAt(bytes, i) + 1, WitnessOffsetAt(bytes, i + 1))

\* WitnessArgsReader::verify(slice, false)
WitnessArgsVerify(bytes) ==
    /\ Len(bytes) >= 4
    /\ ReadU32LE(WordAt(bytes, 0)) = Len(bytes)
    /\ Len(bytes) >= WitnessHeaderSize
    /\ WitnessOffsetAt(bytes, 1) = WitnessHeaderSize
    /\ \A i \in 1..WITNESS_FIELD_COUNT :
          WitnessOffsetAt(bytes, i) <= WitnessOffsetAt(bytes, i + 1)
    /\ \A i \in 1..WITNESS_FIELD_COUNT :
          BytesOptVerify(WitnessFieldAt(bytes, i))

\* BytesOpt::to_opt() of a verified field
BytesOptOf(b) ==
    IF Len(b) = 0 THEN NoBytes ELSE SomeBytes(SubSeq(b, 5, Len(b)))

\* WitnessArgs::from_slice(bytes): the record, or a verification error
WitnessArgsFromSlice(bytes) ==
    IF WitnessArgsVerify(bytes)
    THEN [ok |-> TRUE,
          value |-> WitnessArgsOf(BytesOptOf(WitnessFieldAt(bytes, 1)),
                                  BytesOptOf(WitnessFieldAt(bytes, 2)),
                                  BytesOptOf(WitnessFieldAt(bytes, 3)))]
    ELSE [ok |-> FALSE, value |-> WitnessArgsDefault]

\* (n as u64).to_le_bytes() of a length, n < 2^31
U64LE(n) == U32LE(n) \o << 0, 0, 0, 0 >>

\* a lock or type script
Script(code_hash, hash_type, args) ==
    [code_hash |-> code_hash, hash_type |-> hash_type, args |-> args]

\* Script::default(), the lock of an output the builder has not locked
DefaultScript == Script("zero", "Data", <<>>)

\* the code hash of the sighash lock, ckb_sdk::constants::SIGHASH_TYPE_HASH
SIGHASH_TYPE_HASH == "sighash_type_hash"

\* genesis_info.sighash_type_hash(): the type hash of the genesis sighash cell
GenesisSighashTypeHash == SIGHASH_TYPE_HASH

\* genesis_info.sighash_dep()
SighashDep == "sighash_dep"

\* transact_args().sighash_args(): the H160 of the sender
SighashArgs == [i \in 1..SIGHASH_ARGS_LEN |-> 7]

CellOutput(capacity, lock, type) ==
    [capacity |-> capacity, lock |-> lock, type |-> type]

\* a TransactionView
Transaction(inputs, outputs, outputs_data, cell_deps, header_deps, witnesses) ==
    [inputs |-> inputs, outputs |-> outputs, outputs_data |-> outputs_data,
     cell_deps |-> cell_deps, header_deps |-> header_deps,
     witnesses |-> witnesses]

\* transaction.hash(): the hash of the raw transaction, which is all but the
\* witnesses; the model keeps what was hashed in place of the 32 bytes
TxHash(transaction) ==
    [inputs |-> transaction.inputs, outputs |-> transaction.outputs,
     outputs_data |-> transaction.outputs_data,
     cell_deps |-> transaction.cell_deps,
     header_deps |-> transaction.header_deps]

\* install_sighash_lock with the first output left as it was
install_sighash_lock_SkipFirst(transaction) ==
    LET lock_script == Script(GenesisSighashTypeHash, "Type", SighashArgs)
    IN [transaction EXCEPT
          !.outputs = [i \in 1..Len(transaction.outputs) |->
                          IF i = 1 THEN transaction.outputs[i]
                          ELSE [transaction.outputs[i] EXCEPT
                                   !.lock = lock_script]],
          !.cell_deps = Append(transaction.cell_deps, SighashDep)]

\* DAOSubCommand::install_sighash_lock
install_sighash_lock(transaction) ==
    LET lock_script == Script(GenesisSighashTypeHash, "Type", SighashArgs)
    IN [transaction EXCEPT
          !.outputs = [i \in 1..Len(transaction.outputs) |->
                          [transaction.outputs[i] EXCEPT !.lock = lock_script]],
          !.cell_deps = Append(transaction.cell_deps, SighashDep)]

\* the absence of a transaction
NoTransaction == Transaction(<<>>, <<>>, <<>>, <<>>, <<>>, <<>>)

\* what the digest absorbs: the transaction hash, the init witness behind
\* its length, then every witness after the first behind its length
Absorbed(transaction, init_witness, witnesses) ==
    [hash |-> TxHash(transaction),
     bytes |-> U64LE(Len(WitnessArgsAsBytes(init_witness)))
                 \o WitnessArgsAsBytes(init_witness)
                 \o Flatten([i \in 1..(Len(witnesses) - 1) |->
                                U64LE(Len(witnesses[i + 1]))
                                   \o witnesses[i + 1]])]

\* nothing was absorbed: the call ended before the digest
NoDigest == [hash |-> TxHash(NoTransaction), bytes |-> <<>>]

\* what a call of the finalizer came to: the transaction it returned, what
\* the digest absorbed, whether the password was asked for and the signer
\* called, and the signature the signer returned
SignOk(transaction, absorbed, prompted, signature) ==
    [tag |-> "Ok", err |-> "", tx |-> transaction, absorbed |-> absorbed,
     prompted |-> prompted, signed |-> TRUE, signature |-> signature]
SignErr(e, absorbed, prompted, signed) ==
    [tag |-> "Err", err |-> e, tx |-> NoTransaction, absorbed |-> absorbed,
     prompted |-> prompted, signed |-> signed, signature |-> <<>>]
SignPanic(e, absorbed, prompted, signed) ==
    [tag |-> "Panic", err |-> e, tx |-> NoTransaction, absorbed |-> absorbed,
     prompted |-> prompted, signed |-> signed, signature |-> <<>>]
NoSignResult ==
    [tag |-> "none", err |-> "", tx |-> NoTransaction, absorbed |-> NoDigest,
     prompted |-> FALSE, signed |-> FALSE, signature |-> <<>>]

\* the signatures the signer may return
SignatureA == [i \in 1..LOCK_SIZE |-> IF i = LOCK_SIZE THEN 1 ELSE 17]
SignatureB == [i \in 1..LOCK_SIZE |-> IF i = LOCK_SIZE THEN 0 ELSE 34]

\* the ways the signing can go: the private key is in the arguments or the
\* password is read, and the signer returns a signature, an error or nothing
Signing(privkey, password, outcome, signature) ==
    [privkey |-> privkey, password |-> password, outcome |-> outcome,
     signature |-> signature]
Signings ==
    { Signing(TRUE, TRUE, "signature", SignatureA),
      Signing(FALSE, TRUE, "signature", SignatureB),
      Signing(FALSE, FALSE, "signature", SignatureB),
      Signing(TRUE, TRUE, "error", SignatureA),
      Signing(FALSE, TRUE, "missed", SignatureA) }

\* the lock the finalizer asserts of every output
SighashShaped(output) ==
    /\ output.lock.hash_type = "Type"
    /\ Len(output.lock.args) = SIGHASH_ARGS_LEN
    /\ output.lock.code_hash = SIGHASH_TYPE_HASH

\* the witness loop of install_sighash_witness: some witness parses, as the
\* slice of the packed bytes, to a WitnessArgs that has a lock
WitnessAssertFails(witness) ==
    LET w == WitnessArgsFromSlice(PackedBytes(witness))
    IN w.ok /\ w.value.lock.some

\* the spliced witness built from nothing but the signature
SplicedWitness_FromDefault(init_witness, signature) ==
    WitnessArgsAsBytes(WitnessArgsOf(SomeBytes(signature), NoBytes, NoBytes))

\* the witness that replaces the first: the init witness with the signature
\* as its lock
SplicedWitness(init_witness, signature) ==
    WitnessArgsAsBytes([init_witness EXCEPT !.lock = SomeBytes(signature)])

\* DAOSubCommand::install_sighash_witness
install_sighash_witness(transaction, signing) ==
    LET witnesses == transaction.witnesses
    IN IF \E i \in 1..Len(transaction.outputs) :
             ~SighashShaped(transaction.outputs[i])
       THEN SignPanic("assert_eq", NoDigest, FALSE, FALSE)
       ELSE IF \E i \in 1..Len(witnesses) : WitnessAssertFails(witnesses[i])
       THEN SignPanic("assert lock is none", NoDigest, FALSE, FALSE)
       ELSE IF Len(witnesses) = 0
       THEN SignPanic("index out of bounds", NoDigest, FALSE, FALSE)
       ELSE
       LET parsed == IF Len(witnesses[1]) = 0
                     THEN [ok |-> TRUE, value |-> WitnessArgsDefault]
                     ELSE WitnessArgsFromSlice(witnesses[1])
           init_witness == [parsed.value EXCEPT
                               !.lock = SomeBytes(Zeros(LOCK_SIZE))]
           absorbed == Absorbed(transaction, init_witness, witnesses)
       IN IF ~parsed.ok
          THEN SignErr("VerificationError", NoDigest, FALSE, FALSE)
          ELSE IF ~signing.privkey /\ ~signing.password
          THEN SignErr("read_password", absorbed, TRUE, FALSE)
          ELSE IF signing.outcome = "error"
          THEN SignErr("signer", absorbed, ~signing.privkey, TRUE)
          ELSE IF signing.outcome = "missed"
          THEN SignPanic("signer missed", absorbed, ~signing.privkey, TRUE)
          ELSE SignOk([transaction EXCEPT !.witnesses[1] =
                          SplicedWitness(init_witness, signing.signature)],
                      absorbed, ~signing.privkey, signing.signature)

\* DAOSubCommand::sign: the lock, then the witness
sign(transaction, signing) ==
    install_sighash_witness(install_sighash_lock(transaction), signing)

\* the most times the model hands one transaction to the finalizer
MaxPasses == 3

\* the witness the builder gives an input of a withdrawal: the index of the
\* deposit header among the header deps, as the input type
HeaderIndexWitness(index) ==
    WitnessArgsAsBytes(WitnessArgsOf(NoBytes, SomeBytes(U64LE(index)), NoBytes))

\* the transactions the builder hands to sign: a deposit of two inputs with
\* change, a prepare of one deposit cell and a fee cell, and withdrawals of
\* one and of two prepared cells
Skeletons ==
    { Transaction(<< "c100", "c300" >>,
                  << CellOutput(Amount(350, 0), DefaultScript, "dao"),
                     CellOutput(Amount(49, 99999000), DefaultScript, "none") >>,
                  << Zeros(8), <<>> >>,
                  << "dao_dep" >>, <<>>,
                  << <<>>, <<>> >>),
      Transaction(<< "deposit", "c100" >>,
                  << CellOutput(Amount(200, 0),
                                Script(SIGHASH_TYPE_HASH, "Type", SighashArgs),
                                "dao"),
                     CellOutput(Amount(99, 99999000), DefaultScript, "none") >>,
                  << << 9, 0, 0, 0, 0, 0, 0, 0 >>, <<>> >>,
                  << "dao_dep" >>, << "h9" >>,
                  << <<>>, <<>> >>),
      Transaction(<< "prepare" >>,
                  << CellOutput(Amount(200, 500), DefaultScript, "none") >>,
                  << <<>> >>,
                  << "dao_dep" >>, << "h9", "h11" >>,
                  << HeaderIndexWitness(0) >>),
      Transaction(<< "prepare", "prepareHi" >>,
                  << CellOutput(Amount(400, 900), DefaultScript, "none") >>,
                  << <<>> >>,
                  << "dao_dep" >>, << "h9", "h11", "h2", "h12" >>,
                  << HeaderIndexWitness(0), HeaderIndexWitness(2) >>) }

\* a transaction handed to sign, and how many times it has been through
Submitted(transaction, pass) == [tx |-> transaction, pass |-> pass]

\* a call of sign: the transaction after install_sighash_lock and what
\* install_sighash_witness returned
SignCall(locked, r) == [locked |-> locked, result |-> r]
NoSignCall == SignCall(NoTransaction, NoSignResult)

(***************************************************************************)
(* The DAO transactions (dao/mod.rs: deposit, prepare, withdraw), the      *)
(* selection of the caller's cells and the skeletons of the builder.       *)
(***************************************************************************)
\* a - b of two capacities, a >= b
AmountSub(a, b) ==
    IF a.shannon >= b.shannon
    THEN Amount(a.ckb - b.ckb, a.shannon - b.shannon)
    ELSE Amount(a.ckb - b.ckb - 1, a.shannon + ONE_CKB - b.shannon)

RECURSIVE TotalCapacity(_, _)
\* the capacities of the first n cells, added up
TotalCapacity(cells, n) ==
    IF n = 0 THEN ZeroAmount
    ELSE AmountAdd(TotalCapacity(cells, n - 1), cells[n].capacity)

\* what take_by_out_points returns
TakeOk(takes) == [tag |-> "Ok", cells |-> takes, missing |-> {}]
TakeErr(set) == [tag |-> "Err", cells |-> <<>>, missing |-> set]
NoTake == [tag |-> "none", cells |-> <<>>, missing |-> {}]

RECURSIVE TakeWalk(_, _, _, _)
\* the filter of take_by_out_points from the i-th cell on: a cell is taken
\* when its out-point is removed from the set
TakeWalk(cells, i, set, takes) ==
    IF i > Len(cells) THEN [set |-> set, takes |-> takes]
    ELSE IF cells[i].out_point \in set
         THEN TakeWalk(cells, i + 1, set \ {cells[i].out_point},
                       Append(takes, cells[i]))
         ELSE TakeWalk(cells, i + 1, set, takes)

\* a selection that returns what it found whatever was left unfound
take_by_out_points_Lenient(cells, out_points) ==
    TakeOk(TakeWalk(cells, 1, Range(out_points), <<>>).takes)

\* take_by_out_points
take_by_out_points(cells, out_points) ==
    LET walk == TakeWalk(cells, 1, Range(out_points), <<>>)
    IN  IF walk.set # {} THEN TakeErr(walk.set) ELSE TakeOk(walk.takes)

\* what the builder returns
BuildOk(transaction) == [tag |-> "Ok", tx |-> transaction]
BuildErr == [tag |-> "Err", tx |-> NoTransaction]

\* the inputs of a skeleton and a default witness for each
InputsOf(cells) == [i \in 1..Len(cells) |-> cells[i].out_point]
DefaultWitnesses(cells) == [i \in 1..Len(cells) |-> <<>>]

\* a change output of what is left, when something is left
ChangeOutputs(left) ==
    IF left = ZeroAmount THEN <<>>
    ELSE << CellOutput(left, DefaultScript, "none") >>
ChangeData(left) == IF left = ZeroAmount THEN <<>> ELSE << <<>> >>

\* DAOBuilder::deposit: one DAO output of the capacity, the change, and
\* the cells as inputs
DAOBuilder_deposit(cells, tx_fee, capacity) ==
    LET total == TotalCapacity(cells, Len(cells))
        spent == AmountAdd(capacity, tx_fee)
    IN  IF ~AmountGe(total, spent) THEN BuildErr
        ELSE BuildOk(Transaction(
                 InputsOf(cells),
                 << CellOutput(capacity, DefaultScript, "dao") >>
                    \o ChangeOutputs(AmountSub(total, spent)),
                 << Zeros(8) >> \o ChangeData(AmountSub(total, spent)),
                 << "dao_dep" >>, <<>>, DefaultWitnesses(cells)))

\* the DAO cells among the inputs and the cells that pay the fee
DaoInputs(cells) == SelectSeq(cells, LAMBDA c : c.type_hashes = "dao")
FeeInputs(cells) == SelectSeq(cells, LAMBDA c : c.type_hashes # "dao")

\* DAOBuilder::prepare: every deposit cell becomes an output that carries
\* its block number, the fee is paid by the other cells; the header deps
\* are asked of the node
DAOBuilder_prepare(cells, tx_fee, rpc_ok) ==
    LET deposits == DaoInputs(cells)
        fees == FeeInputs(cells)
        total == TotalCapacity(fees, Len(fees))
    IN  IF ~rpc_ok \/ ~AmountGe(total, tx_fee) THEN BuildErr
        ELSE BuildOk(Transaction(
                 InputsOf(cells),
                 [i \in 1..Len(deposits) |->
                     CellOutput(deposits[i].capacity, DefaultScript, "dao")]
                    \o ChangeOutputs(AmountSub(total, tx_fee)),
                 [i \in 1..Len(deposits) |-> U64LE(deposits[i].number)]
                    \o ChangeData(AmountSub(total, tx_fee)),
                 << "dao_dep" >>,
                 [i \in 1..Len(deposits) |-> deposits[i].number],
                 DefaultWitnesses(cells)))

\* DAOBuilder::withdraw: one output of what the prepared cells hold less
\* the fee, and for every input the index of its deposit header as the
\* input type of its witness; the headers are asked of the node
DAOBuilder_withdraw(cells, tx_fee, rpc_ok) ==
    LET total == TotalCapacity(cells, Len(cells))
    IN  IF ~rpc_ok \/ Len(cells) = 0 \/ ~AmountGe(total, tx_fee) THEN BuildErr
        ELSE BuildOk(Transaction(
                 InputsOf(cells),
                 << CellOutput(AmountSub(total, tx_fee), DefaultScript, "none") >>,
                 << <<>> >>,
                 << "dao_dep" >>,
                 [i \in 1..(2 * Len(cells)) |->
                     IF i % 2 = 1 THEN cells[(i + 1) \div 2].data[1]
                     ELSE cells[i \div 2].number],
                 [i \in 1..Len(cells) |-> HeaderIndexWitness(2 * (i - 1))]))

\* what deposit, prepare and withdraw come to: the selection of the named
\* cells, the capacity collected, the inputs, the skeleton and the call of
\* sign
TransactErr(e, selection, take) ==
    [tag |-> "Err", err |-> e, selection |-> selection, take |-> take,
     inputs |-> <<>>, tx |-> NoTransaction, call |-> NoSignCall]
TransactPanic(selection, take) ==
    [tag |-> "Panic", err |-> "", selection |-> selection, take |-> take,
     inputs |-> <<>>, tx |-> NoTransaction, call |-> NoSignCall]
Signed(selection, take, inputs, transaction, signing) ==
    LET r == sign(transaction, signing)
    IN  [tag |-> r.tag, err |-> r.err,
         selection |-> selection, take |-> take, inputs |-> inputs,
         tx |-> transaction,
         call |-> SignCall(install_sighash_lock(transaction), r)]

\* a deposit that collects for the fee alone
deposit_FeeOnly(cells, capacity, tx_fee, max_mature_number, db_ready, rpc_ok, signing) ==
    LET collected == collect_sighash_cells(cells, tx_fee, max_mature_number, rpc_ok)
        raw == DAOBuilder_deposit(collected.cells, tx_fee, ZeroAmount)
    IN  IF ~db_ready \/ collected.tag # "Ok" \/ raw.tag # "Ok"
        THEN TransactErr("failed", NoTake, collected.take)
        ELSE Signed(NoTake, collected.take, collected.cells, raw.tx, signing)

\* DAOSubCommand::deposit
deposit(cells, capacity, tx_fee, max_mature_number, db_ready, rpc_ok, signing) ==
    IF ~db_ready THEN TransactErr("db", NoTake, ZeroAmount)
    ELSE
    LET target_capacity == AmountAdd(capacity, tx_fee)
        collected == collect_sighash_cells(cells, target_capacity,
                                           max_mature_number, rpc_ok)
        raw_transaction == DAOBuilder_deposit(collected.cells, tx_fee, capacity)
    IN  IF collected.tag # "Ok"
        THEN TransactErr(collected.err, NoTake, collected.take)
        ELSE IF raw_transaction.tag # "Ok"
        THEN TransactErr("build", NoTake, collected.take)
        ELSE Signed(NoTake, collected.take, collected.cells,
                    raw_transaction.tx, signing)

\* DAOSubCommand::prepare
prepare(cells, out_points, tx_fee, max_mature_number, db_ready, rpc_ok, signing) ==
    IF ~db_ready THEN TransactErr("db", NoTake, ZeroAmount)
    ELSE
    LET to_pay_fee == collect_sighash_cells(cells, tx_fee, max_mature_number,
                                            rpc_ok)
        deposit_cells == query_deposit_cells(cells, "me", rpc_ok)
        to_prepare == take_by_out_points(deposit_cells.cells, out_points)
        all == to_prepare.cells \o to_pay_fee.cells
        raw_transaction == DAOBuilder_prepare(all, tx_fee, rpc_ok)
    IN  IF to_pay_fee.tag # "Ok"
        THEN TransactErr(to_pay_fee.err, NoTake, to_pay_fee.take)
        ELSE IF deposit_cells.tag = "Panic"
        THEN TransactPanic(NoTake, to_pay_fee.take)
        ELSE IF deposit_cells.tag # "Ok"
        THEN TransactErr(deposit_cells.err, NoTake, to_pay_fee.take)
        ELSE IF to_prepare.tag # "Ok"
        THEN TransactErr("cells are not found", to_prepare, to_pay_fee.take)
        ELSE IF raw_transaction.tag # "Ok"
        THEN TransactErr("build", to_prepare, to_pay_fee.take)
        ELSE Signed(to_prepare, to_pay_fee.take, all, raw_transaction.tx,
                    signing)

\* DAOSubCommand::withdraw
withdraw(cells, out_points, tx_fee, db_ready, rpc_ok, signing) ==
    IF ~db_ready THEN TransactErr("db", NoTake, ZeroAmount)
    ELSE
    LET prepare_cells == query_prepare_cells(cells, "me", rpc_ok)
        taken == take_by_out_points(prepare_cells.cells, out_points)
        raw_transaction == DAOBuilder_withdraw(taken.cells, tx_fee, rpc_ok)
    IN  IF prepare_cells.tag = "Panic"
        THEN TransactPanic(NoTake, ZeroAmount)
        ELSE IF prepare_cells.tag # "Ok"
        THEN TransactErr(prepare_cells.err, NoTake, ZeroAmount)
        ELSE IF taken.tag # "Ok"
        THEN TransactErr("cells are not found", taken, ZeroAmount)
        ELSE IF raw_transaction.tag # "Ok"
        THEN TransactErr("build", taken, ZeroAmount)
        ELSE Signed(taken, ZeroAmount, taken.cells, raw_transaction.tx,
                    signing)

\* the capacities asked to be deposited, the fee, the out-points the caller
\* names and the ways the signing goes in the calls of the model
DepositCapacities == { Amount(350, 0), Amount(99, 99999000) }
TxFees == { Amount(0, 1000) }
OutPointLists ==
    { << "deposit" >>, << "prepare", "gone" >>, << "prepareHi", "prepare" >>,
      << "prepare", "prepare" >>, << "gone", "deposit", "lost" >>, <<>> }
TransactSignings ==
    { Signing(TRUE, TRUE, "signature", SignatureA),
      Signing(FALSE, FALSE, "signature", SignatureB) }

\* a call of deposit, prepare or withdraw: its arguments and what it came to
Transacted(op, capacity, tx_fee, out_points, r) ==
    [op |-> op, capacity |-> capacity, tx_fee |-> tx_fee,
     out_points |-> out_points, tag |-> r.tag, err |-> r.err,
     selection |-> r.selection, take |-> r.take, inputs |-> r.inputs,
     built |-> r.tx # NoTransaction]
NoTransact ==
    Transacted("none", ZeroAmount, ZeroAmount, <<>>,
               TransactErr("", NoTake, ZeroAmount))

\* the finalizer before any transaction is handed to it
SignFresh ==
    /\ submitted = Submitted(NoTransaction, 0)
    /\ signCall = NoSignCall
    /\ transacted = NoTransact

(***************************************************************************)
(* Initial states.                                                         *)
(***************************************************************************)
\* Spec: the session is open, the caller holds no LedgerCap yet
Init ==
    /\ cap = NoCap
    /\ pc = [o \in OpIds |-> "none"]
    /\ signerPath = [o \in OpIds |-> <<>>]
    /\ callerMsg = [o \in OpIds |-> <<>>]
    /\ wire = [o \in OpIds |-> <<>>]
    /\ message = [o \in OpIds |-> <<>>]
    /\ base = [o \in OpIds |-> FIRST]
    /\ response = [o \in OpIds |-> NoResponse]
    /\ result = [o \in OpIds |-> NoResult]
    /\ apduLog = <<>>
    /\ inflight = {}
    /\ transportFaults = {}
    /\ running = NoOp
    /\ KeyStoreFresh
    /\ DaoFresh
    /\ SignFresh

\* ChunkSpec: operation op1 stands at the call of the chunk closure with a
\* payload of any length up to MaxMsgLen
ChunkInit ==
    /\ cap = NoCap
    /\ \E n \in 0..MaxMsgLen :
         /\ wire = [o \in OpIds |-> IF o = "op1" THEN Fill(n, 11) ELSE <<>>]
         /\ message = wire
    /\ pc = [o \in OpIds |-> IF o = "op1" THEN "enter" ELSE "none"]
    /\ signerPath = [o \in OpIds |-> <<>>]
    /\ callerMsg = [o \in OpIds |-> <<>>]
    /\ base = [o \in OpIds |-> FIRST]
    /\ response = [o \in OpIds |-> NoResponse]
    /\ result = [o \in OpIds |-> NoResult]
    /\ apduLog = <<>>
    /\ inflight = {}
    /\ transportFaults = {}
    /\ running = "op1"
    /\ KeyStoreFresh
    /\ DaoFresh
    /\ SignFresh

(***************************************************************************)
(* Handles and signers.                                                    *)
(***************************************************************************)
\* LedgerMasterCap::extended_privkey: a LedgerCap for a path that passes the
\* policy, an error and no LedgerCap otherwise; the device is not touched
ExtendedPrivkey(path) ==
    /\ running = NoOp
    /\ cap' = IF is_valid_derivation_path(path)
              THEN [bound |-> TRUE, path |-> path]
              ELSE cap
    /\ UNCHANGED << transportFaults, pc, signerPath, callerMsg, wire, message, base, response,
                    result, apduLog, inflight, running >>
    /\ UNCHANGED << keyStoreVars, daoVars, signVars >>

\* LedgerCap::begin_sign_recoverable: the closure takes a clone of the handle
BeginSignRecoverable(o) ==
    /\ running = NoOp
    /\ cap.bound
    /\ pc[o] = "none"
    /\ signerPath' = [signerPath EXCEPT ![o] = cap.path]
    /\ pc' = [pc EXCEPT ![o] = "signer"]
    /\ UNCHANGED << transportFaults, cap, callerMsg, wire, message, base, response, result,
                    apduLog, inflight, running >>
    /\ UNCHANGED << keyStoreVars, daoVars, signVars >>

\* a closure that reads the path of the caller's handle when it runs
ClosurePath_OfLiveHandle(o) == cap.path

\* the path the closure signs at: that of its own clone of the handle
ClosurePath(o) == signerPath[o]

\* the signer is invoked: the pre-image is parsed (unwrap: a buffer that does
\* not verify ends the thread), rebuilt with the paths, and handed to chunk
InvokeSigner(o, msg) ==
    /\ running = NoOp
    /\ pc[o] = "signer"
    /\ running' = o
    /\ callerMsg' = [callerMsg EXCEPT ![o] = msg]
    /\ IF Verify(msg)
       THEN /\ wire' = [wire EXCEPT ![o] = as_slice(raw_message(ClosurePath(o), msg))]
            /\ message' = [message EXCEPT ![o] = wire'[o]]
            /\ pc' = [pc EXCEPT ![o] = "enter"]
       ELSE /\ pc' = [pc EXCEPT ![o] = "panicked"]
            /\ UNCHANGED << wire, message >>
    /\ UNCHANGED << transportFaults, cap, signerPath, base, response, result, apduLog, inflight >>
    /\ UNCHANGED << keyStoreVars, daoVars, signVars >>


\* the hashes a caller asks sign for
SignHashes == { [i \in 1..32 |-> 0], Fill(32, 7) }

\* LedgerCap::sign: unimplemented!(), whatever the hash: the call panics, it
\* returns nothing to its caller and hands nothing to the transport
Sign(o, hash) ==
    /\ running = NoOp
    /\ cap.bound
    /\ pc[o] = "none"
    /\ running' = o
    /\ callerMsg' = [callerMsg EXCEPT ![o] = hash]
    /\ pc' = [pc EXCEPT ![o] = "sign_panicked"]
    /\ UNCHANGED << transportFaults, cap, signerPath, wire, message, base,
                    response, result, apduLog, inflight >>
    /\ UNCHANGED << keyStoreVars, daoVars, signVars >>

\* the caller drops the signer without invoking it
DropSigner(o) ==
    /\ running = NoOp
    /\ pc[o] = "signer"
    /\ pc' = [pc EXCEPT ![o] = "dropped"]
    /\ UNCHANGED << transportFaults, cap, signerPath, callerMsg, wire, message,
                    base, response, result, apduLog, inflight, running >>
    /\ UNCHANGED << keyStoreVars, daoVars, signVars >>


(***************************************************************************)
(* The chunk closure: the loop of begin_sign_recoverable that streams the  *)
(* payload, one blocking exchange per chunk.                               *)
(***************************************************************************)
\* an entry without the assertion
ChunkEnter_NoAssert(o) ==
    /\ pc[o] = "enter"
    /\ pc' = [pc EXCEPT ![o] = "chunk"]
    /\ base' = [base EXCEPT ![o] = FIRST]
    /\ UNCHANGED << transportFaults, cap, signerPath, callerMsg, wire, message,
                    response, result, apduLog, inflight, running >>
    /\ UNCHANGED << keyStoreVars, daoVars, signVars >>

\* entry of chunk: the assertion on the payload, then base = FIRST
ChunkEnter(o) ==
    /\ pc[o] = "enter"
    /\ IF Len(message[o]) > 0
       THEN pc' = [pc EXCEPT ![o] = "chunk"]
       ELSE pc' = [pc EXCEPT ![o] = "panicked"]
    /\ base' = [base EXCEPT ![o] = FIRST]
    /\ UNCHANGED << transportFaults, cap, signerPath, callerMsg, wire, message, response,
                    result, apduLog, inflight, running >>
    /\ UNCHANGED << keyStoreVars, daoVars, signVars >>

\* a loop that hands chunks to the transport without waiting for the
\* response to the one before
SendChunk_NoWait(o) ==
    /\ pc[o] = "chunk"
    /\ Len(message[o]) > 0
    /\ LET length == ChunkLength(message[o])
           chunk == split_off_at(message[o], length)
       IN  /\ apduLog' = Append(apduLog, SignApdu(o, base[o], message[o]))
           /\ inflight' = inflight \cup { [by |-> o, seq |-> Len(apduLog) + 1] }
           /\ message' = [message EXCEPT ![o] = chunk.rest]
           /\ pc' = [pc EXCEPT ![o] = IF Len(chunk.rest) = 0 THEN "exchange" ELSE "chunk"]
    /\ base' = [base EXCEPT ![o] = NEXT]
    /\ running' = o
    /\ UNCHANGED << transportFaults, cap, signerPath, callerMsg, wire, response,
                    result >>
    /\ UNCHANGED << keyStoreVars, daoVars, signVars >>

\* top of the loop: the next chunk is split off and handed to the transport;
\* the call blocks in exchange
SendChunk(o) ==
    /\ pc[o] = "chunk"
    /\ LET length == ChunkLength(message[o])
           chunk == split_off_at(message[o], length)
       IN  /\ chunk.ok
           /\ apduLog' = Append(apduLog, SignApdu(o, base[o], message[o]))
           /\ inflight' = inflight \cup { [by |-> o, seq |-> Len(apduLog) + 1] }
           /\ message' = [message EXCEPT ![o] = chunk.rest]
    /\ pc' = [pc EXCEPT ![o] = "exchange"]
    /\ running' = o
    /\ UNCHANGED << transportFaults, cap, signerPath, callerMsg, wire, base, response, result >>
    /\ UNCHANGED << keyStoreVars, daoVars, signVars >>

\* a loop that returns to its caller between two chunks
ExchangeOk_Yield(o, resp) ==
    /\ pc[o] = "exchange"
    /\ inflight' = { a \in inflight : a.by # o }
    /\ IF Len(message[o]) = 0
       THEN /\ response' = [response EXCEPT ![o] = [some |-> TRUE, data |-> resp]]
            /\ pc' = [pc EXCEPT ![o] = "parse"]
            /\ UNCHANGED << base, running >>
       ELSE /\ base' = [base EXCEPT ![o] = NEXT]
            /\ pc' = [pc EXCEPT ![o] = "chunk"]
            /\ running' = NoOp
            /\ UNCHANGED response
    /\ UNCHANGED << transportFaults, cap, signerPath, callerMsg, wire, message,
                    result, apduLog >>
    /\ UNCHANGED << keyStoreVars, daoVars, signVars >>

\* a loop that keeps the first response it is given and returns that one
ExchangeOk_KeepFirst(o, resp) ==
    /\ pc[o] = "exchange"
    /\ inflight' = { a \in inflight : a.by # o }
    /\ response' = [response EXCEPT ![o] =
                       IF response[o].some THEN response[o]
                       ELSE [some |-> TRUE, data |-> resp]]
    /\ IF Len(message[o]) = 0
       THEN /\ pc' = [pc EXCEPT ![o] = "parse"]
            /\ UNCHANGED base
       ELSE /\ base' = [base EXCEPT ![o] = NEXT]
            /\ pc' = [pc EXCEPT ![o] = "chunk"]
    /\ UNCHANGED << transportFaults, cap, signerPath, callerMsg, wire, message, result, apduLog,
                    running >>
    /\ UNCHANGED << keyStoreVars, daoVars, signVars >>

\* exchange returns a response: the last chunk's is returned by chunk, any
\* other is dropped and the loop goes on with base = NEXT
ExchangeOk(o, resp) ==
    /\ pc[o] = "exchange"
    /\ inflight' = { a \in inflight : a.by # o }
    /\ IF Len(message[o]) = 0
       THEN /\ response' = [response EXCEPT ![o] = [some |-> TRUE, data |-> resp]]
            /\ pc' = [pc EXCEPT ![o] = "parse"]
            /\ UNCHANGED base
       ELSE /\ base' = [base EXCEPT ![o] = NEXT]
            /\ pc' = [pc EXCEPT ![o] = "chunk"]
            /\ UNCHANGED response
    /\ UNCHANGED << transportFaults, cap, signerPath, callerMsg, wire, message, result, apduLog,
                    running >>
    /\ UNCHANGED << keyStoreVars, daoVars, signVars >>

\* a loop that takes a failed exchange for an empty response and goes on
ExchangeErr_GoOn(o) ==
    /\ pc[o] = "exchange"
    /\ inflight' = { a \in inflight : a.by # o }
    /\ transportFaults' = transportFaults \cup { a.seq : a \in { b \in inflight : b.by = o } }
    /\ IF Len(message[o]) = 0
       THEN /\ response' = [response EXCEPT ![o] = [some |-> TRUE, data |-> <<>>]]
            /\ pc' = [pc EXCEPT ![o] = "parse"]
            /\ UNCHANGED base
       ELSE /\ base' = [base EXCEPT ![o] = NEXT]
            /\ pc' = [pc EXCEPT ![o] = "chunk"]
            /\ UNCHANGED response
    /\ UNCHANGED << cap, signerPath, callerMsg, wire, message, result, apduLog,
                    running >>
    /\ UNCHANGED << keyStoreVars, daoVars, signVars >>

\* exchange fails: `?` returns the transport error from chunk and from the
\* signer at once
ExchangeErr(o) ==
    /\ pc[o] = "exchange"
    /\ inflight' = { a \in inflight : a.by # o }
    /\ transportFaults' = transportFaults \cup { a.seq : a \in { b \in inflight : b.by = o } }
    /\ result' = [result EXCEPT ![o] = Err("TransportError")]
    /\ pc' = [pc EXCEPT ![o] = "failed"]
    /\ running' = NoOp
    /\ UNCHANGED << cap, signerPath, callerMsg, wire, message, base, response,
                    apduLog >>
    /\ UNCHANGED << keyStoreVars, daoVars, signVars >>

\* a signer that is still there after it has run
ParseResponse_Reusable(o) ==
    /\ pc[o] = "parse"
    /\ result' = [result EXCEPT ![o] = ParseSignature(response[o].data)]
    /\ pc' = [pc EXCEPT ![o] = "signer"]
    /\ running' = NoOp
    /\ UNCHANGED << transportFaults, cap, signerPath, callerMsg, wire, message, base, response,
                    apduLog, inflight >>
    /\ UNCHANGED << keyStoreVars, daoVars, signVars >>

\* after chunk: the final response is parsed into the recoverable signature
\* and the signer returns
ParseResponse(o) ==
    /\ pc[o] = "parse"
    /\ result' = [result EXCEPT ![o] = ParseSignature(response[o].data)]
    /\ pc' = [pc EXCEPT ![o] = IF result'[o].tag = "Ok" THEN "done" ELSE "failed"]
    /\ running' = NoOp
    /\ UNCHANGED << transportFaults, cap, signerPath, callerMsg, wire, message, base, response,
                    apduLog, inflight >>
    /\ UNCHANGED << keyStoreVars, daoVars, signVars >>

(***************************************************************************)
(* public_key: one exchange.                                               *)
(***************************************************************************)
\* apdu::extend_public_key
ExtendPublicKeyApdu(o, data) ==
    [by |-> o, cmd |-> "extend_public_key", cla |-> 128, p1 |-> 0, p2 |-> 0,
     length |-> AsU8(Len(data)), data |-> data]

\* LedgerCap::public_key up to its exchange
PublicKeyCall(o) ==
    /\ running = NoOp
    /\ cap.bound
    /\ pc[o] = "none"
    /\ signerPath' = [signerPath EXCEPT ![o] = cap.path]
    /\ apduLog' = Append(apduLog, ExtendPublicKeyApdu(o, PathData(cap.path)))
    /\ inflight' = inflight \cup { [by |-> o, seq |-> Len(apduLog) + 1] }
    /\ pc' = [pc EXCEPT ![o] = "pk_exchange"]
    /\ running' = o
    /\ UNCHANGED << transportFaults, cap, callerMsg, wire, message, base, response, result >>
    /\ UNCHANGED << keyStoreVars, daoVars, signVars >>

\* the exchange of public_key returns a response, which is parsed
PublicKeyOkReturn(o, resp) ==
    /\ pc[o] = "pk_exchange"
    /\ inflight' = { a \in inflight : a.by # o }
    /\ result' = [result EXCEPT ![o] = ParsePublicKey(resp)]
    /\ pc' = [pc EXCEPT ![o] = IF result'[o].tag = "Ok" THEN "pk_done" ELSE "pk_failed"]
    /\ running' = NoOp
    /\ UNCHANGED << transportFaults, cap, signerPath, callerMsg, wire, message, base, response,
                    apduLog >>
    /\ UNCHANGED << keyStoreVars, daoVars, signVars >>

\* the exchange of public_key fails
PublicKeyErrReturn(o) ==
    /\ pc[o] = "pk_exchange"
    /\ inflight' = { a \in inflight : a.by # o }
    /\ transportFaults' = transportFaults \cup { a.seq : a \in { b \in inflight : b.by = o } }
    /\ result' = [result EXCEPT ![o] = Err("TransportError")]
    /\ pc' = [pc EXCEPT ![o] = "pk_failed"]
    /\ running' = NoOp
    /\ UNCHANGED << cap, signerPath, callerMsg, wire, message, base, response,
                    apduLog >>
    /\ UNCHANGED << keyStoreVars, daoVars, signVars >>

(***************************************************************************)
(* The key store's operations.                                             *)
(***************************************************************************)
\* a device is plugged in, the bus being free
Attach(d) ==
    /\ attached = NoDevice
    /\ attached' = d
    /\ UNCHANGED << discovered_devices, opened, probe, ksCall, borrowed,
                    heldCap, seenId, spareCap, openTransports >>
    /\ UNCHANGED << sessionVars, daoVars, signVars >>

\* the device is unplugged
Detach ==
    /\ attached # NoDevice
    /\ attached' = NoDevice
    /\ UNCHANGED << discovered_devices, opened, probe, ksCall, borrowed,
                    heldCap, seenId, spareCap, openTransports >>
    /\ UNCHANGED << sessionVars, daoVars, signVars >>

\* what a refresh leaves outside the table: the transport it opened, the
\* APDU it sent on it, and the id the device got
RefreshTraces(opening, r) ==
    /\ opened' = IF opening.found THEN opened + 1 ELSE opened
    /\ apduLog' = IF opening.found THEN Append(apduLog, GetWalletIdApdu) ELSE apduLog
    /\ probe' = [dev |-> attached, found |-> opening.found, ok |-> opening.ok,
                 data |-> opening.data]
    /\ seenId' = IF opening.found /\ r.tag = "Ok"
                 THEN [seenId EXCEPT ![attached] = r.master.id]
                 ELSE seenId
    /\ openTransports' =
          Release(openTransports, TransportsOf(discovered_devices),
                  HandleTransports({heldCap, spareCap}))
             \cup TransportsOf(r.devices)

\* AbstractKeyStore::list_accounts: refresh, then the keys of the table
ListAccounts(opening) ==
    /\ opening \in Openings
    /\ opening.found => opened < MaxOpens
    /\ LET r == refresh(discovered_devices, opened + 1, opening)
       IN  /\ discovered_devices' = r.devices
           /\ ksCall' = KsCall("list_accounts", <<>>, <<>>, r,
                               IF r.tag = "Ok" THEN { m.id : m \in r.devices } ELSE {},
                               NoMaster)
           /\ RefreshTraces(opening, r)
    /\ borrowed' = NoMaster
    /\ UNCHANGED << attached, heldCap, spareCap >>
    /\ UNCHANGED << cap, pc, signerPath, callerMsg, wire, message, base,
                    response, result, inflight, transportFaults, running >>
    /\ UNCHANGED << daoVars, signVars >>

\* a borrow_account that looks into the table as it stands
BorrowAccount_NoRefresh(account_id, opening) ==
    /\ opening \in Openings
    /\ LET found == GetDevice(discovered_devices, account_id)
       IN  /\ ksCall' = KsCall("borrow_account", account_id, <<>>,
                               IF found = NoMaster
                               THEN KsErr("LedgerNotFound", discovered_devices)
                               ELSE KsOk(discovered_devices, found),
                               {}, found)
           /\ borrowed' = found
    /\ probe' = [dev |-> attached, found |-> FALSE, ok |-> FALSE, data |-> <<>>]
    /\ UNCHANGED << attached, discovered_devices, opened, heldCap, seenId,
                    spareCap, openTransports >>
    /\ UNCHANGED << sessionVars, daoVars, signVars >>

\* AbstractKeyStore::borrow_account: refresh, then the entry of account_id
\* or LedgerNotFound { id: account_id }
BorrowAccount(account_id, opening) ==
    /\ opening \in Openings
    /\ opening.found => opened < MaxOpens
    /\ LET r == refresh(discovered_devices, opened + 1, opening)
           found == GetDevice(r.devices, account_id)
       IN  /\ discovered_devices' = r.devices
           /\ ksCall' = KsCall("borrow_account", account_id, <<>>,
                               IF r.tag = "Err" THEN r
                               ELSE IF found = NoMaster
                                    THEN KsErr("LedgerNotFound", r.devices)
                                    ELSE KsOk(r.devices, found),
                               {},
                               IF r.tag = "Err" THEN NoMaster ELSE found)
           /\ borrowed' = IF r.tag = "Err" THEN NoMaster ELSE found
           /\ RefreshTraces(opening, r)
    /\ UNCHANGED << attached, heldCap, spareCap >>
    /\ UNCHANGED << cap, pc, signerPath, callerMsg, wire, message, base,
                    response, result, inflight, transportFaults, running >>
    /\ UNCHANGED << daoVars, signVars >>

\* extended_privkey on the borrowed LedgerMasterCap; the caller keeps the
\* LedgerCap it gets
ExtendedPrivkeyOf(path) ==
    /\ borrowed # NoMaster
    /\ LET r == extended_privkey(borrowed, path)
       IN  /\ ksCall' = KsCall("extended_privkey", <<>>, r.path, r, {}, r.cap.master)
           /\ heldCap' = IF r.tag = "Ok" THEN r.cap ELSE heldCap
           /\ openTransports' =
                 IF r.tag = "Ok"
                 THEN Release(openTransports, HandleTransports({heldCap}),
                              TransportsOf(discovered_devices)
                                 \cup HandleTransports({spareCap, r.cap}))
                 ELSE openTransports
    /\ UNCHANGED << attached, discovered_devices, opened, probe, borrowed, seenId,
                    spareCap >>
    /\ UNCHANGED << sessionVars, daoVars, signVars >>

\* LedgerCap::clone, derived: the caller keeps a second handle of the same
\* session
CloneHandle ==
    /\ heldCap.bound
    /\ ~spareCap.bound
    /\ spareCap' = heldCap
    /\ UNCHANGED << attached, discovered_devices, opened, probe, ksCall,
                    borrowed, heldCap, seenId, openTransports >>
    /\ UNCHANGED << sessionVars, daoVars, signVars >>

\* the caller drops the LedgerCap it derived
DropHandle ==
    /\ heldCap.bound
    /\ heldCap' = NoLedgerCap
    /\ openTransports' =
          Release(openTransports, HandleTransports({heldCap}),
                  TransportsOf(discovered_devices)
                     \cup HandleTransports({spareCap}))
    /\ UNCHANGED << attached, discovered_devices, opened, probe, ksCall,
                    borrowed, seenId, spareCap >>
    /\ UNCHANGED << sessionVars, daoVars, signVars >>

\* the caller drops the clone
DropSpare ==
    /\ spareCap.bound
    /\ spareCap' = NoLedgerCap
    /\ openTransports' =
          Release(openTransports, HandleTransports({spareCap}),
                  TransportsOf(discovered_devices)
                     \cup HandleTransports({heldCap}))
    /\ UNCHANGED << attached, discovered_devices, opened, probe, ksCall,
                    borrowed, heldCap, seenId >>
    /\ UNCHANGED << sessionVars, daoVars, signVars >>

(***************************************************************************)
(* The DAO subcommand's queries.                                           *)
(***************************************************************************)
\* DAOSubCommand::query_deposit_cells for the lock of the address
QueryDepositCells(rpc_ok) ==
    /\ daoCall' = [daoCall EXCEPT !["query_deposit_cells"] =
                      Called(query_deposit_cells(liveCells, "me", rpc_ok), ZeroAmount)]
    /\ UNCHANGED << liveCells, maxMature >>
    /\ UNCHANGED << sessionVars, keyStoreVars, signVars >>

\* DAOSubCommand::query_prepare_cells for the lock of the address
QueryPrepareCells(rpc_ok) ==
    /\ daoCall' = [daoCall EXCEPT !["query_prepare_cells"] =
                      Called(query_prepare_cells(liveCells, "me", rpc_ok), ZeroAmount)]
    /\ UNCHANGED << liveCells, maxMature >>
    /\ UNCHANGED << sessionVars, keyStoreVars, signVars >>

\* DAOSubCommand::collect_sighash_cells
CollectSighashCells(target_capacity, rpc_ok) ==
    /\ daoCall' = [daoCall EXCEPT !["collect_sighash_cells"] =
                      Called(collect_sighash_cells(liveCells, target_capacity,
                                                   maxMature, rpc_ok),
                             target_capacity)]
    /\ UNCHANGED << liveCells, maxMature >>
    /\ UNCHANGED << sessionVars, keyStoreVars, signVars >>

\* DAOSubCommand::sign on the transaction it is handed
SignTransaction(signing) ==
    /\ submitted.pass > 0
    /\ signCall = NoSignCall
    /\ signCall' = SignCall(install_sighash_lock(submitted.tx),
                            sign(submitted.tx, signing))
    /\ UNCHANGED << submitted, transacted >>
    /\ UNCHANGED << sessionVars, keyStoreVars, daoVars >>

\* the caller hands the transaction sign returned to sign once more
Resubmit ==
    /\ signCall.result.tag = "Ok"
    /\ submitted.pass < MaxPasses
    /\ submitted' = Submitted(signCall.result.tx, submitted.pass + 1)
    /\ signCall' = NoSignCall
    /\ UNCHANGED transacted
    /\ UNCHANGED << sessionVars, keyStoreVars, daoVars >>

\* the transaction a call hands to sign, if it came to build one
SubmittedBy(r) ==
    IF r.tx = NoTransaction THEN Submitted(NoTransaction, 0)
    ELSE Submitted(r.tx, 1)

\* DAOSubCommand::deposit, the one call of a run of the command
Deposit(capacity, tx_fee, db_ready, rpc_ok, signing) ==
    /\ transacted.op = "none"
    /\ LET r == deposit(liveCells, capacity, tx_fee, maxMature, db_ready,
                       rpc_ok, signing)
       IN  /\ transacted' = Transacted("deposit", capacity, tx_fee, <<>>, r)
           /\ submitted' = SubmittedBy(r)
           /\ signCall' = r.call
    /\ UNCHANGED << sessionVars, keyStoreVars, daoVars >>

\* DAOSubCommand::prepare
Prepare(out_points, tx_fee, db_ready, rpc_ok, signing) ==
    /\ transacted.op = "none"
    /\ LET r == prepare(liveCells, out_points, tx_fee, maxMature, db_ready,
                       rpc_ok, signing)
       IN  /\ transacted' = Transacted("prepare", ZeroAmount, tx_fee, out_points, r)
           /\ submitted' = SubmittedBy(r)
           /\ signCall' = r.call
    /\ UNCHANGED << sessionVars, keyStoreVars, daoVars >>

\* DAOSubCommand::withdraw
Withdraw(out_points, tx_fee, db_ready, rpc_ok, signing) ==
    /\ transacted.op = "none"
    /\ LET r == withdraw(liveCells, out_points, tx_fee, db_ready, rpc_ok,
                        signing)
       IN  /\ transacted' = Transacted("withdraw", ZeroAmount, tx_fee, out_points, r)
           /\ submitted' = SubmittedBy(r)
           /\ signCall' = r.call
    /\ UNCHANGED << sessionVars, keyStoreVars, daoVars >>

(***************************************************************************)
(* Specifications.                                                         *)
(***************************************************************************)
Next ==
    \/ \E path \in CandidatePaths : ExtendedPrivkey(path)
    \/ \E o \in OpIds : BeginSignRecoverable(o)
    \/ \E o \in OpIds, msg \in CallerMessages : InvokeSigner(o, msg)
    \/ \E o \in OpIds : ChunkEnter(o)
    \/ \E o \in OpIds : SendChunk(o)
    \/ \E o \in OpIds, resp \in SpecResponses : ExchangeOk(o, resp)
    \/ \E o \in OpIds : ExchangeErr(o)
    \/ \E o \in OpIds : ParseResponse(o)
    \/ \E o \in OpIds : PublicKeyCall(o)
    \/ \E o \in OpIds, resp \in PubkeyResponses : PublicKeyOkReturn(o, resp)
    \/ \E o \in OpIds : PublicKeyErrReturn(o)
    \/ \E o \in OpIds, hash \in SignHashes : Sign(o, hash)
    \/ \E o \in OpIds : DropSigner(o)

Spec == Init /\ [][Next]_vars

ChunkNext ==
    \/ \E o \in OpIds : ChunkEnter(o)
    \/ \E o \in OpIds : SendChunk(o)
    \/ \E o \in OpIds, resp \in ChunkResponses : ExchangeOk(o, resp)
    \/ \E o \in OpIds : ExchangeErr(o)
    \/ \E o \in OpIds : ParseResponse(o)

ChunkSpec == ChunkInit /\ [][ChunkNext]_vars

\* the chunk loop with a device that answers every exchange: the closure is
\* straight-line code on one thread, so a step that can be taken is taken
ChunkAnsweredNext ==
    \/ \E o \in OpIds : ChunkEnter(o)
    \/ \E o \in OpIds : SendChunk(o)
    \/ \E o \in OpIds, resp \in ChunkResponses : ExchangeOk(o, resp)
    \/ \E o \in OpIds : ParseResponse(o)

ChunkAnsweredSpec ==
    ChunkInit /\ [][ChunkAnsweredNext]_vars /\ WF_vars(ChunkAnsweredNext)

\* the longest path the model lets a handle hold
MaxPathLen == 257

\* a path of n child numbers that passes the policy
PathOfLen(n) ==
    [i \in 1..n |-> IF i = 1 THEN Hardened(44)
                    ELSE IF i = 2 THEN Hardened(309)
                    ELSE Normal(i)]

\* the paths a LedgerCap can hold: extended_privkey puts no bound on the
\* length and the field is public
HandlePaths == { PathOfLen(n) : n \in 2..MaxPathLen }

\* PathSpec: the caller holds a LedgerCap of some path and calls public_key
PathInit ==
    /\ \E path \in HandlePaths : cap = [bound |-> TRUE, path |-> path]
    /\ pc = [o \in OpIds |-> "none"]
    /\ signerPath = [o \in OpIds |-> <<>>]
    /\ callerMsg = [o \in OpIds |-> <<>>]
    /\ wire = [o \in OpIds |-> <<>>]
    /\ message = [o \in OpIds |-> <<>>]
    /\ base = [o \in OpIds |-> FIRST]
    /\ response = [o \in OpIds |-> NoResponse]
    /\ result = [o \in OpIds |-> NoResult]
    /\ apduLog = <<>>
    /\ inflight = {}
    /\ transportFaults = {}
    /\ running = NoOp
    /\ KeyStoreFresh
    /\ DaoFresh
    /\ SignFresh

PathNext ==
    \/ \E o \in OpIds : PublicKeyCall(o)
    \/ \E o \in OpIds, resp \in PubkeyResponses : PublicKeyOkReturn(o, resp)
    \/ \E o \in OpIds : PublicKeyErrReturn(o)

PathSpec == PathInit /\ [][PathNext]_vars

\* DaoSpec: a chain of up to MaxCells live cells and a maturity horizon
DaoInit ==
    /\ \E cells \in SUBSET CellPool :
          /\ Cardinality(cells) <= MaxCells
          /\ liveCells = cells
    /\ maxMature \in MaxMatureNumbers
    /\ daoCall = [op \in DaoOps |-> Called(NoDaoResult, ZeroAmount)]
    /\ cap = NoCap
    /\ pc = [o \in OpIds |-> "none"]
    /\ signerPath = [o \in OpIds |-> <<>>]
    /\ callerMsg = [o \in OpIds |-> <<>>]
    /\ wire = [o \in OpIds |-> <<>>]
    /\ message = [o \in OpIds |-> <<>>]
    /\ base = [o \in OpIds |-> FIRST]
    /\ response = [o \in OpIds |-> NoResponse]
    /\ result = [o \in OpIds |-> NoResult]
    /\ apduLog = <<>>
    /\ inflight = {}
    /\ transportFaults = {}
    /\ running = NoOp
    /\ KeyStoreFresh
    /\ SignFresh

DaoNext ==
    \/ \E rpc_ok \in BOOLEAN : QueryDepositCells(rpc_ok)
    \/ \E rpc_ok \in BOOLEAN : QueryPrepareCells(rpc_ok)
    \/ \E target_capacity \in TargetCapacities, rpc_ok \in BOOLEAN :
          CollectSighashCells(target_capacity, rpc_ok)

DaoSpec == DaoInit /\ [][DaoNext]_vars

\* TransactSpec: deposit, prepare and withdraw on a chain of up to MaxCells
\* live cells
TransactNext ==
    \/ \E capacity \in DepositCapacities, tx_fee \in TxFees,
          db_ready \in BOOLEAN, rpc_ok \in BOOLEAN,
          signing \in TransactSignings :
          Deposit(capacity, tx_fee, db_ready, rpc_ok, signing)
    \/ \E out_points \in OutPointLists, tx_fee \in TxFees,
          db_ready \in BOOLEAN, rpc_ok \in BOOLEAN,
          signing \in TransactSignings :
          Prepare(out_points, tx_fee, db_ready, rpc_ok, signing)
    \/ \E out_points \in OutPointLists, tx_fee \in TxFees,
          db_ready \in BOOLEAN, rpc_ok \in BOOLEAN,
          signing \in TransactSignings :
          Withdraw(out_points, tx_fee, db_ready, rpc_ok, signing)

TransactSpec == DaoInit /\ [][TransactNext]_vars

\* FinalizeSpec: a transaction of the builder goes through sign, and what
\* sign returns may go through it again
FinalizeInit ==
    /\ \E skeleton \in Skeletons : submitted = Submitted(skeleton, 1)
    /\ signCall = NoSignCall
    /\ transacted = NoTransact
    /\ cap = NoCap
    /\ pc = [o \in OpIds |-> "none"]
    /\ signerPath = [o \in OpIds |-> <<>>]
    /\ callerMsg = [o \in OpIds |-> <<>>]
    /\ wire = [o \in OpIds |-> <<>>]
    /\ message = [o \in OpIds |-> <<>>]
    /\ base = [o \in OpIds |-> FIRST]
    /\ response = [o \in OpIds |-> NoResponse]
    /\ result = [o \in OpIds |-> NoResult]
    /\ apduLog = <<>>
    /\ inflight = {}
    /\ transportFaults = {}
    /\ running = NoOp
    /\ KeyStoreFresh
    /\ DaoFresh

FinalizeNext ==
    \/ \E signing \in Signings : SignTransaction(signing)
    \/ Resubmit

FinalizeSpec == FinalizeInit /\ [][FinalizeNext]_vars

\* HandleSpec: the key store and a caller that keeps, clones and drops the
\* handle it derives, with two devices on the bus
HandleDevices == {"nanoA", "nanoC"}
HandleIds == { SubSeq(WalletIdResponse(d), 1, 32) : d \in HandleDevices }
HandlePath == << Hardened(44), Hardened(309), Hardened(0) >>
HandleOpenings ==
    { NoOpening, [found |-> TRUE, ok |-> FALSE, data |-> <<>>] } \cup
    { [found |-> TRUE, ok |-> TRUE, data |-> WalletIdResponse(d)] :
        d \in HandleDevices }

HandleNext ==
    \/ \E d \in HandleDevices : Attach(d)
    \/ Detach
    \/ \E opening \in HandleOpenings : ListAccounts(opening)
    \/ \E account_id \in HandleIds, opening \in HandleOpenings :
          BorrowAccount(account_id, opening)
    \/ ExtendedPrivkeyOf(HandlePath)
    \/ CloneHandle
    \/ DropHandle
    \/ DropSpare

HandleSpec == Init /\ [][HandleNext]_vars

\* the key store, its one caller and the bus
KeyStoreNext ==
    \/ \E d \in Devices : Attach(d)
    \/ Detach
    \/ \E opening \in AllOpenings : ListAccounts(opening)
    \/ \E account_id \in CallerIds, opening \in AllOpenings :
          BorrowAccount(account_id, opening)
    \/ \E path \in CandidatePaths : ExtendedPrivkeyOf(path)

KeyStoreSpec == Init /\ [][KeyStoreNext]_vars


(***************************************************************************)
(* Properties.                                                             *)
(***************************************************************************)
\* the sign APDUs of operation o, in the order they were sent
SignApdusOf(o) == SelectSeq(apduLog, LAMBDA a : a.by = o /\ a.cmd = "sign")

\* the data of a sequence of APDUs, concatenated
DataOf(apdus) == Flatten([i \in 1..Len(apdus) |-> apdus[i].data])

\* the sizes and the p1 bytes of a sequence of APDUs
SizesOf(apdus) == [i \in 1..Len(apdus) |-> Len(apdus[i].data)]
P1sOf(apdus) == [i \in 1..Len(apdus) |-> apdus[i].p1]

CeilDiv(a, b) == (a + b - 1) \div b

\* the number of sign APDUs of operation o that carry the LAST_MARKER bit
LastMarkerCount(o) ==
    Len(SelectSeq(apduLog,
                  LAMBDA a : a.by = o /\ a.cmd = "sign" /\ a.p1 \div 128 = 1))

\* C1: a streaming sign of a non-empty payload M that succeeds has sent
\* ceil(|M|/230) sign APDUs (cla 0x80, ins 0x03, p2 0), each with 1 to 230
\* data bytes and every one but the last with exactly 230, and their data in
\* send order is M byte for byte.  (Checked of every sign whose chunks were
\* all exchanged, the successful ones among them.)
C1_ChunkingRoundTrip ==
    \A o \in OpIds :
        response[o].some =>
            LET a == SignApdusOf(o)
            IN  /\ Len(wire[o]) >= 1
                /\ Len(a) = CeilDiv(Len(wire[o]), 230)
                /\ \A i \in 1..Len(a) :
                      /\ a[i].cla = 128 /\ a[i].ins = 3 /\ a[i].p2 = 0
                      /\ Len(a[i].data) \in 1..230
                      /\ i < Len(a) => Len(a[i].data) = 230
                /\ DataOf(a) = wire[o]

\* a sign of 500 bytes has succeeded in three chunks
C1_Witness ==
    \E o \in OpIds :
        /\ pc[o] = "done"
        /\ Len(wire[o]) = 500
        /\ Len(SignApdusOf(o)) = 3

\* C2: p1 of chunk i depends on its position only: 0x00 for chunk 0 and 0x01
\* for a later one, plus 0x80 on the final chunk; the reserved bits 0x10,
\* 0x20, 0x40 are never set; |M| = 1 and 230 give one APDU with p1 0x80, 231
\* gives p1 0x00, 0x81 and 500 gives sizes 230, 230, 40 with 0x00, 0x01, 0x81.
C2_P1ByPosition ==
    \A o \in OpIds :
        LET a == SignApdusOf(o)
            n == CeilDiv(Len(wire[o]), 230)
        IN  /\ \A i \in 1..Len(a) :
                  /\ a[i].p1 = (IF i = 1 THEN 0 ELSE 1) + (IF i = n THEN 128 ELSE 0)
                  /\ BitAnd(a[i].p1, 16 + 32 + 64) = 0
            /\ response[o].some =>
                  /\ Len(wire[o]) \in {1, 230} => P1sOf(a) = << 128 >>
                  /\ Len(wire[o]) = 231 => P1sOf(a) = << 0, 129 >>
                  /\ Len(wire[o]) = 500 =>
                        /\ SizesOf(a) = << 230, 230, 40 >>
                        /\ P1sOf(a) = << 0, 1, 129 >>

\* the three chunks of a sign of 500 bytes have been answered
C2_Witness ==
    \E o \in OpIds :
        /\ response[o].some
        /\ Len(wire[o]) = 500
        /\ P1sOf(SignApdusOf(o)) = << 0, 1, 129 >>

\* C7: with an empty payload the chunk routine sends no APDU at all: it stops
\* at its assertion.
C7_EmptyPayloadSendsNothing ==
    \A o \in OpIds :
        (pc[o] # "none" /\ Len(wire[o]) = 0) =>
            /\ pc[o] \in {"enter", "panicked"}
            /\ \A i \in 1..Len(apduLog) : apduLog[i].by # o
            /\ \A a \in inflight : a.by # o

\* the chunk routine was entered with an empty payload and has stopped
C7_Witness ==
    \E o \in OpIds : pc[o] = "panicked" /\ Len(wire[o]) = 0 /\ apduLog = <<>>

\* the outcome the parse of a final response r must have, by the amended C8
C8_Expected(r, res) ==
    /\ res.tag = "Ok" <=>
          (Len(r) = 65 /\ r[65] \in 0..3 /\ FromCompactOk(SubSeq(r, 1, 64)))
    /\ res.tag = "Ok" => res.sig = r
    /\ Len(r) < 65 => res = Err("UnexpectedEndOfData")
    /\ (Len(r) > 65 /\ r[65] \in 0..3) => res = Err("TrailingData")
    /\ (Len(r) >= 65 /\ r[65] \notin 0..3) => res = Err("CryptoError")
    /\ (Len(r) = 65 /\ ~FromCompactOk(SubSeq(r, 1, 64))) => res = Err("CryptoError")

\* C8 (as amended): the final response gives a signature exactly when it is
\* 65 bytes, byte 64 is in 0..3 and the compact signature is well formed; a
\* shorter one fails with UnexpectedEndOfData; a longer one fails with
\* TrailingData when its byte 64 is in 0..3 and with a crypto error when it
\* is not; a recovery id outside 0..3 fails with a crypto error.
C8_ParseFinalResponse ==
    \A o \in OpIds :
        (response[o].some /\ pc[o] \in {"done", "failed"}) =>
            C8_Expected(response[o].data, result[o])

\* C8 as stated: every response longer than 65 bytes fails with TrailingData
C8_AsStated ==
    \A o \in OpIds :
        (response[o].some /\ pc[o] \in {"done", "failed"}) =>
            LET r == response[o].data
            IN  /\ result[o].tag = "Ok" <=>
                      (Len(r) = 65 /\ r[65] \in 0..3 /\ FromCompactOk(SubSeq(r, 1, 64)))
                /\ Len(r) < 65 => result[o] = Err("UnexpectedEndOfData")
                /\ Len(r) > 65 => result[o] = Err("TrailingData")
                /\ (Len(r) = 65 /\ r[65] \notin 0..3) => result[o] = Err("CryptoError")

\* a response of 66 bytes whose byte 64 is no recovery id has been parsed
C8_Witness ==
    \E o \in OpIds :
        /\ pc[o] = "failed"
        /\ response[o].some
        /\ Len(response[o].data) = 66
        /\ response[o].data[65] = 4
        /\ result[o] = Err("CryptoError")


\* the positions in apduLog of the sign APDUs of operation o
SignSeqsOf(o) ==
    { i \in 1..Len(apduLog) : apduLog[i].by = o /\ apduLog[i].cmd = "sign" }

\* C3: within one sign the chunks go out in strictly ascending offset order
\* (each chunk is non-empty and starts where the one before ended), and a
\* chunk is sent only after the response to the one before has come: a sign
\* never has more than one APDU outstanding, and the outstanding one is the
\* last it sent.
C3_OneChunkOutstanding ==
    \A o \in OpIds :
        LET a == SignApdusOf(o)
            sent == DataOf(a)
        IN  /\ Cardinality({ f \in inflight : f.by = o }) <= 1
            /\ \A f \in inflight :
                  f.by = o => \A j \in SignSeqsOf(o) : j <= f.seq
            /\ \A i \in 1..Len(a) : Len(a[i].data) >= 1
            /\ Len(sent) <= Len(wire[o])
            /\ sent = SubSeq(wire[o], 1, Len(sent))
            /\ pc[o] = "chunk" => { f \in inflight : f.by = o } = {}

\* the second chunk of a sign is outstanding, the first has been answered
C3_Witness ==
    \E o \in OpIds :
        /\ pc[o] = "exchange"
        /\ Len(SignApdusOf(o)) = 2
        /\ Cardinality({ f \in inflight : f.by = o }) = 1

\* C4 as stated: every invocation of the signer that has returned, whatever
\* its outcome, has sent exactly one APDU with the LAST_MARKER bit
C4_AsStated ==
    \A o \in OpIds : pc[o] \in {"done", "failed"} => LastMarkerCount(o) = 1

\* C4 (as amended): an invocation of the signer sends at most one APDU with
\* the LAST_MARKER bit; it has sent exactly one when it ends in success or in
\* a parse error, and when it ends in a transport error it has sent one if
\* the failing chunk was the final one and none if it was an earlier one.
C4_LastMarkerAtMostOnce ==
    \A o \in OpIds :
        /\ LastMarkerCount(o) <= 1
        /\ response[o].some => LastMarkerCount(o) = 1
        /\ (pc[o] = "failed" /\ result[o] = Err("TransportError")) =>
              LastMarkerCount(o) = (IF Len(message[o]) = 0 THEN 1 ELSE 0)
        /\ LastMarkerCount(o) = 1 =>
              /\ Len(message[o]) = 0
              /\ SignApdusOf(o)[Len(SignApdusOf(o))].p1 \div 128 = 1

\* a sign of two chunks has succeeded and its second chunk carried the bit
C4_Witness ==
    \E o \in OpIds :
        /\ pc[o] = "done"
        /\ Len(SignApdusOf(o)) = 2
        /\ LastMarkerCount(o) = 1

C6_TransportFailureIsTerminal ==
    \A i \in transportFaults :
        apduLog[i].cmd = "sign" =>
            LET o == apduLog[i].by
            IN  /\ \A j \in SignSeqsOf(o) : j <= i
                /\ ~response[o].some
                /\ result[o] = Err("TransportError")
                /\ pc[o] = "failed"
                /\ \A f \in inflight : f.by # o

\* the first of two chunks failed, and the other operation has used the
\* session since
C6_Witness ==
    \E i \in transportFaults :
        /\ apduLog[i].cmd = "sign"
        /\ apduLog[i].p1 = 0
        /\ Len(message[apduLog[i].by]) > 0
        /\ Len(apduLog) > i

\* whether the signer of operation o has built its wire payload
WireBuilt(o) == Len(wire[o]) > 0

\* C9: if the caller's change_path has length zero the wire change_path is
\* the sign_path built from the handle's path, otherwise it is the caller's
\* change_path byte for byte.
C9_ChangePathPolicy ==
    \A o \in OpIds :
        WireBuilt(o) =>
            LET given == from_slice(callerMsg[o])
                sent == from_slice(wire[o])
            IN  /\ Verify(wire[o])
                /\ IF Len(given.change_path) = 0
                   THEN /\ sent.change_path = sent.sign_path
                        /\ sent.change_path =
                              [i \in 1..Len(signerPath[o]) |-> to_le_bytes(signerPath[o][i])]
                   ELSE /\ sent.change_path = given.change_path
                        /\ FieldAt(wire[o], 2) = FieldAt(callerMsg[o], 2)

\* one signer was given an empty change_path and another a change_path that
\* differs from its sign_path
C9_Witness ==
    \E o1, o2 \in OpIds :
        /\ WireBuilt(o1) /\ WireBuilt(o2)
        /\ Len(from_slice(callerMsg[o1]).change_path) = 0
        /\ Len(from_slice(callerMsg[o2]).change_path) > 0
        /\ from_slice(wire[o2]).change_path # from_slice(wire[o2]).sign_path

\* the child number a Uint32 of the wire stands for, read little-endian
C10_Decode(u) ==
    [hardened |-> u[4] >= 128,
     index |-> u[1] + 256 * u[2] + 65536 * u[3] + 16777216 * (u[4] % 128)]

\* C10: the wire sign_path is the path the handle had when begin_sign was
\* called, one entry per child number and in order, whatever sign_path the
\* caller sent; input_count, raw and witnesses reach the wire unchanged.
C10_SignPathAndFrame ==
    \A o \in OpIds :
        WireBuilt(o) =>
            LET given == from_slice(callerMsg[o])
                sent == from_slice(wire[o])
            IN  /\ Verify(wire[o])
                /\ Len(sent.sign_path) = Len(signerPath[o])
                /\ \A i \in 1..Len(sent.sign_path) :
                      C10_Decode(sent.sign_path[i]) = signerPath[o][i]
                /\ sent.input_count = given.input_count
                /\ sent.raw = given.raw
                /\ sent.witnesses = given.witnesses

\* a signer was invoked after the caller's handle had been replaced by one
\* of another path, with a transaction that carried a sign_path of its own
C10_Witness ==
    \E o \in OpIds :
        /\ WireBuilt(o)
        /\ cap.path # signerPath[o]
        /\ Len(from_slice(callerMsg[o]).sign_path) > 0
        /\ from_slice(callerMsg[o]).sign_path # from_slice(wire[o]).sign_path


\* the APDUs of operation o, of any command, sent or in flight
ApdusOf(o) == SelectSeq(apduLog, LAMBDA a : a.by = o)
InflightOf(o) == { a \in inflight : a.by = o }

\* the sign APDUs of operation o that open a stream: chunk 0, whose p1 is
\* FIRST with or without the LAST_MARKER bit
FirstChunksOf(o) ==
    SelectSeq(apduLog, LAMBDA a : a.by = o /\ a.cmd = "sign" /\ a.p1 % 128 = FIRST)

\* C11 (as stated): sign(hash) on the hardware backend ends by returning the
\* error value Unsupported("hash-only signing") to its caller, whatever the
\* hash, and hands no APDU to the transport.
C11_AsStated ==
    \A o \in OpIds :
        pc[o] \in {"sign_failed", "sign_panicked"} =>
            /\ pc[o] = "sign_failed"
            /\ result[o] = Err("Unsupported")
            /\ ApdusOf(o) = <<>>
            /\ InflightOf(o) = {}

\* C12: begin_sign_recoverable exchanges nothing: a signer that has not been
\* invoked, dropped or not, has no APDU on the session; and a signer drives
\* at most one streaming sign: at most one of its APDUs is a chunk 0, and
\* once it has run it is no longer a signer.
C12_DeferredSingleShot ==
    \A o \in OpIds :
        /\ pc[o] \in {"signer", "dropped"} =>
              /\ ApdusOf(o) = <<>>
              /\ InflightOf(o) = {}
              /\ result[o] = NoResult
        /\ Len(FirstChunksOf(o)) <= 1

\* one signer was dropped without being invoked and has sent nothing, while
\* another has run one sign of several chunks to its end
C12_Witness ==
    \E o, q \in OpIds :
        /\ pc[o] = "dropped"
        /\ ApdusOf(o) = <<>>
        /\ pc[q] = "done"
        /\ Len(SignApdusOf(q)) >= 2
        /\ Len(FirstChunksOf(q)) = 1


\* the id a device's wallet-id response stands for: its first 32 bytes when
\* it has the 64 bytes of a wallet id, none otherwise
DeviceIdOf(d) ==
    IF d # NoDevice /\ Len(WalletIdResponse(d)) = 64
    THEN SubSeq(WalletIdResponse(d), 1, 32)
    ELSE <<>>

\* the refresh of the last call got a transport and a wallet-id response
Answered == probe.found /\ probe.ok

\* the refresh of the last call failed: the session did not open
RefreshFailed == probe.found /\ (~probe.ok \/ Len(probe.data) # 64)

\* C13: extended_privkey(path) returns a handle bound to exactly that path
\* and to the master it was called on when the path passes the validity
\* predicate, and the error InvalidDerivationPath carrying that path, and no
\* handle, when it does not; whichever it is, the call sends no APDU, opens
\* no transport and leaves the table alone.
C13_ExtendedPrivkey ==
    [][ \A path \in CandidatePaths :
          ExtendedPrivkeyOf(path) =>
             /\ ksCall'.op = "extended_privkey"
             /\ is_valid_derivation_path(path) =>
                   /\ ksCall'.tag = "Ok"
                   /\ heldCap' = [bound |-> TRUE, path |-> path, master |-> borrowed]
             /\ ~is_valid_derivation_path(path) =>
                   /\ ksCall'.tag = "Err"
                   /\ ksCall'.err = "InvalidDerivationPath"
                   /\ ksCall'.path = path
                   /\ heldCap' = heldCap
             /\ apduLog' = apduLog
             /\ inflight' = inflight
             /\ opened' = opened
             /\ discovered_devices' = discovered_devices ]_vars

\* the caller holds a handle for m/44'/309'/70000 on the borrowed session,
\* and its last call, with a path that fails the policy, was rejected
C13_Witness ==
    /\ heldCap.bound
    /\ heldCap.path = << Hardened(44), Hardened(309), Normal(70000) >>
    /\ heldCap.master = borrowed
    /\ borrowed # NoMaster
    /\ ksCall.op = "extended_privkey"
    /\ ksCall.tag = "Err"
    /\ ksCall.path = << Hardened(44) >>

\* C14: a session opens only on a wallet-id response of exactly 64 bytes;
\* its id is bytes 0..31 of the response, whatever bytes 32..63 are; a
\* shorter response fails with UnexpectedEndOfData and a longer one with
\* TrailingData, and when the opening fails there is no session in the table.
C14_OpenSession ==
    /\ discovered_devices # {} => (Answered /\ Len(probe.data) = 64)
    /\ (Answered /\ Len(probe.data) = 64) =>
          discovered_devices = { MasterCap(SubSeq(probe.data, 1, 32), opened) }
    /\ RefreshFailed => discovered_devices = {}
    /\ (Answered /\ ksCall.op \in {"list_accounts", "borrow_account"}) =>
          /\ Len(probe.data) < 64 =>
                (ksCall.tag = "Err" /\ ksCall.err = "UnexpectedEndOfData")
          /\ Len(probe.data) > 64 =>
                (ksCall.tag = "Err" /\ ksCall.err = "TrailingData")
          /\ Len(probe.data) = 64 =>
                ksCall.err \notin {"UnexpectedEndOfData", "TrailingData", "TransportError"}
    /\ \A m \in discovered_devices \cup ({borrowed, heldCap.master} \ {NoMaster}) :
          Len(m.id) = 32

\* nanoB, whose bytes 32..63 are not those of nanoA, has opened a session
\* under the id that is bytes 0..31 of its response, after nanoA had one
C14_Witness ==
    /\ probe.dev = "nanoB"
    /\ probe.data = WalletIdResponse("nanoB")
    /\ discovered_devices = { MasterCap(Fill(32, 1), opened) }
    /\ seenId["nanoA"] = Fill(32, 1)

\* C15 (as stated): two devices whose wallet-id responses differ never get
\* the same DeviceId, and a device that is reconnected gets the id it had.
C15_AsStated ==
    /\ \A d1, d2 \in Devices :
          (/\ seenId[d1] # <<>>
           /\ seenId[d2] # <<>>
           /\ WalletIdResponse(d1) # WalletIdResponse(d2)) =>
              seenId[d1] # seenId[d2]
    /\ \A d \in Devices : seenId[d] # <<>> => seenId[d] = DeviceIdOf(d)

\* the id of a device does not change from one opened session to the next
SameDeviceSameId ==
    [][ \A d \in Devices : seenId[d] # <<>> => seenId'[d] = seenId[d] ]_vars

C17_AsStated ==
    ksCall.op = "borrow_account" =>
        /\ ksCall.tag = "Ok" =>
              (ksCall.master.id = ksCall.id /\ DeviceIdOf(probe.dev) = ksCall.id)
        /\ DeviceIdOf(probe.dev) # ksCall.id =>
              (ksCall.tag = "Err" /\ ksCall.err = "LedgerNotFound")

\* C17 (as amended): borrow_account(id) refreshes and returns the session of
\* the table whose id is id, opened at this call on the attached device;
\* when the refresh succeeds and found no session of that id (nothing
\* attached, no transport, a device of another id) it fails with
\* DeviceNotFound carrying id; when the session of the attached device fails
\* to open, it fails with the error of the refresh.
C17_BorrowAccount ==
    ksCall.op = "borrow_account" =>
        /\ ksCall.tag = "Ok" =>
              /\ ksCall.master.id = ksCall.id
              /\ ksCall.master \in discovered_devices
              /\ borrowed = ksCall.master
              /\ Answered
              /\ ksCall.master = MasterCap(SubSeq(probe.data, 1, 32), opened)
              /\ DeviceIdOf(probe.dev) = ksCall.id
        /\ (~RefreshFailed /\ ~(Answered /\ DeviceIdOf(probe.dev) = ksCall.id)) =>
              /\ ksCall.tag = "Err"
              /\ ksCall.err = "LedgerNotFound"
              /\ borrowed = NoMaster
        /\ RefreshFailed =>
              /\ ksCall.tag = "Err"
              /\ ksCall.err = (IF ~probe.ok THEN "TransportError"
                               ELSE IF Len(probe.data) < 64 THEN "UnexpectedEndOfData"
                               ELSE "TrailingData")
              /\ borrowed = NoMaster

\* the id of nanoA was asked for with nanoC attached and answering, after
\* nanoA had been seen: DeviceNotFound, and the table holds nanoC
C17_Witness ==
    /\ ksCall.op = "borrow_account"
    /\ ksCall.id = Fill(32, 1)
    /\ seenId["nanoA"] = Fill(32, 1)
    /\ probe.dev = "nanoC"
    /\ Answered
    /\ ksCall.err = "LedgerNotFound"
    /\ discovered_devices = { MasterCap(Fill(32, 5), opened) }


\* the child number that four big-endian bytes stand for
DecodeBE(b) ==
    [hardened |-> b[1] >= 128,
     index |-> (b[1] % 128) * 16777216 + b[2] * 65536 + b[3] * 256 + b[4]]

\* C18 (as stated): public_key sends the path as one length byte equal to
\* the number of child numbers, then each child number as four big-endian
\* bytes: for a path of n child numbers the data is 1 + 4n bytes, its first
\* byte is n, and bytes 4k-2..4k+1 decode to the k-th child number, for
\* every path the handle can hold.
C18_AsStated ==
    \A i \in 1..Len(apduLog) :
        apduLog[i].cmd = "extend_public_key" =>
            LET path == signerPath[apduLog[i].by]
                data == apduLog[i].data
                n == Len(path)
            IN  /\ Len(data) = 1 + 4 * n
                /\ data[1] = n
                /\ \A k \in 1..n :
                      DecodeBE(SubSeq(data, 4 * k - 2, 4 * k + 1)) = path[k]


\* the DAO cells of the address on the chain
DaoCellsOfMe == { c \in liveCells : c.lock = "me" /\ c.type_hashes = "dao" }

\* a sequence of cells in strictly increasing (number, tx_index, output_index)
InKeyOrder(seq) ==
    \A i, k \in 1..Len(seq) : i < k => KeyBefore(seq[i], seq[k])

\* C19: a DAO cell with 8 data bytes is a deposit cell iff the bytes decode
\* little-endian to 0, that is iff all eight are 0, and a prepare cell iff
\* they do not; it is exactly one of the two; so the cells a successful
\* query_deposit_cells returns and those a successful query_prepare_cells
\* returns are, in key order, the DAO cells of the lock with a zero word and
\* those with a non-zero word, and together they partition the enumeration.
C19_Classification ==
    LET dep == daoCall["query_deposit_cells"]
        prep == daoCall["query_prepare_cells"]
    IN  /\ \A c \in liveCells :
              (c.type_hashes = "dao" /\ c.data_bytes = 8) =>
                  /\ is_deposit_cell(c) <=> (\A i \in 1..8 : c.data[i] = 0)
                  /\ is_prepare_cell(c) <=> (\E i \in 1..8 : c.data[i] # 0)
                  /\ is_deposit_cell(c) # is_prepare_cell(c)
        /\ dep.tag = "Ok" =>
              /\ Range(dep.cells) = { c \in DaoCellsOfMe : \A i \in 1..8 : c.data[i] = 0 }
              /\ InKeyOrder(dep.cells)
        /\ prep.tag = "Ok" =>
              /\ Range(prep.cells) = { c \in DaoCellsOfMe : \E i \in 1..8 : c.data[i] # 0 }
              /\ InKeyOrder(prep.cells)
        /\ (dep.tag = "Ok" /\ prep.tag = "Ok") =>
              /\ Range(dep.cells) \cup Range(prep.cells) = DaoCellsOfMe
              /\ Range(dep.cells) \cap Range(prep.cells) = {}
        /\ dep.tag # "Panic" /\ prep.tag # "Panic"

\* both queries have answered on a chain with one deposit cell, two prepare
\* cells, one of them with a word whose low bytes are 0, and a DAO cell of
\* another lock
C19_Witness ==
    /\ daoCall["query_deposit_cells"].tag = "Ok"
    /\ daoCall["query_prepare_cells"].tag = "Ok"
    /\ Len(daoCall["query_deposit_cells"].cells) = 1
    /\ Len(daoCall["query_prepare_cells"].cells) = 2
    /\ \E c \in liveCells : c.out_point = "theirs"
    /\ \E c \in liveCells : c.out_point = "prepareHi"

RECURSIVE SumCapacity(_)
\* the capacities of a set of cells, added up
SumCapacity(cells) ==
    IF cells = {} THEN ZeroAmount
    ELSE LET c == CHOOSE x \in cells : TRUE
         IN  AmountAdd(c.capacity, SumCapacity(cells \ {c}))

\* a cell that is mature and carries neither a type script nor data
MatureAndPure(c) ==
    /\ c.number = 0 \/ c.tx_index > 0 \/ c.number <= maxMature
    /\ c.type_hashes = "none"
    /\ c.data_bytes = 0

\* C20 (as stated): every cell collect_sighash_cells returns is mature with
\* respect to max_mature_number and has no type script and no data, and the
\* accumulated capacity counts such cells only: it is the sum of the cells
\* returned, or, when the capacity is not enough, of all the mature pure
\* cells of the address.
C20_AsStated ==
    LET r == daoCall["collect_sighash_cells"]
    IN  /\ r.tag = "Ok" =>
              /\ \A i \in 1..Len(r.cells) : MatureAndPure(r.cells[i])
              /\ r.take = SumCapacity(Range(r.cells))
        /\ (r.tag = "Err" /\ r.err = "Capacity not enough") =>
              r.take = SumCapacity({ c \in liveCells : c.lock = "me" /\ MatureAndPure(c) })


\* the cells of the address the walk of collect_sighash_cells counts, in
\* the order of the index
Counted ==
    SelectSeq(get_live_cells_by_lock(liveCells, "me"),
              LAMBDA c : ~Skipped(c, maxMature))

RECURSIVE PrefixSum(_, _)
\* the capacities of the first k cells of a sequence, added up
PrefixSum(seq, k) ==
    IF k = 0 THEN ZeroAmount
    ELSE AmountAdd(PrefixSum(seq, k - 1), seq[k].capacity)

AmountGt(a, b) == AmountGe(a, b) /\ a # b

\* the walk can stop after k counted cells: the sum is the target, or it
\* leaves a change of MIN_SECP_CELL_CAPACITY or more
StopPoint(k, target) ==
    \/ PrefixSum(Counted, k) = target
    \/ AmountGe(PrefixSum(Counted, k), AmountAdd(target, MIN_SECP_CELL_CAPACITY))

\* the same with a change of more than MIN_SECP_CELL_CAPACITY
StrictStopPoint(k, target) ==
    \/ PrefixSum(Counted, k) = target
    \/ AmountGt(PrefixSum(Counted, k), AmountAdd(target, MIN_SECP_CELL_CAPACITY))

\* C21 (as stated): the collection stops at the first counted cell at which
\* the accumulated capacity equals the target or exceeds target +
\* MIN_SECP_CELL_CAPACITY; it succeeds exactly when there is such a cell and
\* returns the cells up to it, and fails otherwise with the capacity error
\* that reports the accumulated capacity.
C21_AsStated ==
    LET r == daoCall["collect_sighash_cells"]
        stops == { k \in 1..Len(Counted) : StrictStopPoint(k, r.target) }
    IN  (r.tag = "Ok" \/ (r.tag = "Err" /\ r.err = "Capacity not enough")) =>
            /\ r.tag = "Ok" <=> stops # {}
            /\ r.tag = "Ok" =>
                  \E k \in stops :
                      /\ \A j \in stops : k <= j
                      /\ r.cells = SubSeq(Counted, 1, k)
                      /\ r.take = PrefixSum(Counted, k)
            /\ r.tag = "Err" => r.take = PrefixSum(Counted, Len(Counted))

\* C21 (as amended): the collection stops at the first counted cell at which
\* the accumulated capacity equals the target or is at least target +
\* MIN_SECP_CELL_CAPACITY; it succeeds exactly when there is such a cell and
\* returns the cells up to it, and fails otherwise, an overshoot of less
\* than MIN_SECP_CELL_CAPACITY included, with the capacity error that
\* reports the accumulated capacity.
C21_StopRule ==
    LET r == daoCall["collect_sighash_cells"]
        stops == { k \in 1..Len(Counted) : StopPoint(k, r.target) }
    IN  (r.tag = "Ok" \/ (r.tag = "Err" /\ r.err = "Capacity not enough")) =>
            /\ r.tag = "Ok" <=> stops # {}
            /\ r.tag = "Ok" =>
                  \E k \in stops :
                      /\ \A j \in stops : k <= j
                      /\ r.cells = SubSeq(Counted, 1, k)
                      /\ r.take = PrefixSum(Counted, k)
            /\ r.tag = "Err" =>
                  /\ r.take = PrefixSum(Counted, Len(Counted))
                  /\ r.cells = <<>>

\* 400 CKB were collected for a target of 350.00001 CKB: an overshoot of
\* less than MIN_SECP_CELL_CAPACITY, and the capacity error reports 400
C21_Witness ==
    LET r == daoCall["collect_sighash_cells"]
    IN  /\ r.tag = "Err"
        /\ r.err = "Capacity not enough"
        /\ r.target = Amount(350, 1000)
        /\ r.take = Amount(400, 0)

(***************************************************************************)
(* The DAO deposit of the scenario.                                        *)
(***************************************************************************)
\* the out-points of the inputs the last call selected
InputNames == [i \in 1..Len(transacted.inputs) |-> transacted.inputs[i].out_point]

\* the address holds the cells of 100, 300 and 500 CKB and no other, and a
\* deposit of 350 CKB at a fee of 1000 shannons came to build its skeleton
DepositScenario ==
    /\ { c.out_point : c \in { d \in liveCells : d.lock = "me" } }
          = { "c100", "c300", "c500" }
    /\ transacted.op = "deposit"
    /\ transacted.capacity = Amount(350, 0)
    /\ transacted.tx_fee = Amount(0, 1000)
    /\ transacted.built

Selecting ==
    /\ transacted.op \in {"prepare", "withdraw"}
    /\ transacted.selection.tag # "none"

\* the out-points of the set the call selects from: the live deposit cells
\* of the address for prepare, its live prepare cells for withdraw
SelectableOutPoints ==
    { c.out_point : c \in
        { d \in liveCells :
            /\ d.lock = "me" /\ d.type_hashes = "dao"
            /\ IF transacted.op = "prepare" THEN is_deposit_cell(d)
               ELSE is_prepare_cell(d) } }

\* the out-points the caller named
NamedOutPoints == Range(transacted.out_points)

\* the out-points of the cells the selection returned
TakenOutPoints ==
    [i \in 1..Len(transacted.selection.cells) |->
        transacted.selection.cells[i].out_point]

\* C23: the selection of the named cells succeeds exactly when every named
\* out-point is in the set, and then returns the cells of the named
\* out-points, each once, in the order of the set; otherwise the call fails
\* listing exactly the named out-points that are absent, and no transaction
\* is built or signed
C23_TakeByOutPoints ==
    Selecting =>
        /\ transacted.selection.tag = "Ok"
              <=> NamedOutPoints \subseteq SelectableOutPoints
        /\ transacted.selection.tag = "Ok" =>
              /\ Range(TakenOutPoints) = NamedOutPoints
              /\ Cardinality(NamedOutPoints) = Len(TakenOutPoints)
              /\ \A i, j \in 1..Len(TakenOutPoints) :
                    i < j => KeyBefore(transacted.selection.cells[i],
                                       transacted.selection.cells[j])
              /\ Range(transacted.selection.cells) \subseteq liveCells
        /\ transacted.selection.tag # "Ok" =>
              /\ transacted.selection.missing
                    = NamedOutPoints \ SelectableOutPoints
              /\ transacted.tag = "Err"
              /\ transacted.err = "cells are not found"
              /\ ~transacted.built
              /\ submitted = Submitted(NoTransaction, 0)
              /\ signCall = NoSignCall

\* withdraw([prepare, gone]) with the first a live prepare cell
C23_Witness ==
    /\ Selecting
    /\ transacted.op = "withdraw"
    /\ transacted.out_points = << "prepare", "gone" >>
    /\ "prepare" \in SelectableOutPoints
    /\ transacted.selection.missing = {"gone"}

(***************************************************************************)
(* The sighash finalizer.                                                  *)
(***************************************************************************)
\* sign was called on the submitted transaction
SignCalled == signCall # NoSignCall

FirstWitnessArgs(transaction) ==
    IF Len(transaction.witnesses[1]) = 0 THEN WitnessArgsDefault
    ELSE WitnessArgsFromSlice(transaction.witnesses[1]).value

\* C25: the transaction sign returns differs from the one the witness
\* installation was given in witness 0 only; the lock of that witness is the
\* 65 bytes the signer returned, its input type and output type are those
\* of the original witness 0, absent when that witness was empty; the
\* witnesses are as many, those from index 1 on are unchanged, and so are
\* the inputs, outputs, cell deps and header deps
C25_WitnessSplice ==
    signCall.result.tag = "Ok" =>
        /\ [signCall.result.tx EXCEPT !.witnesses = signCall.locked.witnesses]
              = signCall.locked
        /\ Len(signCall.result.tx.witnesses) = Len(signCall.locked.witnesses)
        /\ \A i \in 2..Len(signCall.locked.witnesses) :
              signCall.result.tx.witnesses[i] = signCall.locked.witnesses[i]
        /\ WitnessArgsVerify(signCall.result.tx.witnesses[1])
        /\ FirstWitnessArgs(signCall.result.tx).lock.some
        /\ Len(FirstWitnessArgs(signCall.result.tx).lock.data) = 65
        /\ FirstWitnessArgs(signCall.result.tx).lock.data
              = signCall.result.signature
        /\ signCall.result.signature \in { SignatureA, SignatureB }
        /\ FirstWitnessArgs(signCall.result.tx).input_type
              = FirstWitnessArgs(signCall.locked).input_type
        /\ FirstWitnessArgs(signCall.result.tx).output_type
              = FirstWitnessArgs(signCall.locked).output_type
        /\ Len(signCall.locked.witnesses[1]) = 0 =>
              /\ ~FirstWitnessArgs(signCall.result.tx).input_type.some
              /\ ~FirstWitnessArgs(signCall.result.tx).output_type.some

\* a withdrawal of two cells was signed: witness 0 keeps its input type
C25_Witness ==
    /\ signCall.result.tag = "Ok"
    /\ submitted.pass = 1
    /\ Len(signCall.locked.witnesses) = 2
    /\ FirstWitnessArgs(signCall.locked).input_type = SomeBytes(U64LE(0))
    /\ FirstWitnessArgs(signCall.result.tx).lock = SomeBytes(SignatureB)

\* a witness that is a WitnessArgs with a lock
CarriesLock(witness) ==
    /\ WitnessArgsVerify(witness)
    /\ WitnessArgsFromSlice(witness).value.lock.some

\* some witness of the transaction handed to sign already carries a lock
AlreadySigned ==
    \E i \in 1..Len(submitted.tx.witnesses) :
        CarriesLock(submitted.tx.witnesses[i])

\* C27 as stated: a transaction one of whose witnesses already carries a
\* lock is not signed: sign ends on the assertion, before the digest is
\* computed, the password asked for or the signer called; so the
\* transaction sign returned is rejected when it is handed to sign again
C27_AsStated ==
    (SignCalled /\ AlreadySigned) =>
        /\ signCall.result.tag = "Panic"
        /\ signCall.result.err = "assert lock is none"
        /\ signCall.result.absorbed = NoDigest
        /\ ~signCall.result.prompted
        /\ ~signCall.result.signed

\* the absorbed bytes of the transaction with one witness byte changed, if
\* the finalizer accepts it
AbsorbedOf(transaction) ==
    sign(transaction, Signing(TRUE, TRUE, "signature", SignatureA)).absorbed

\* the transactions that differ from the submitted one in one byte of one
\* witness
ByteChanges ==
    { [submitted.tx EXCEPT !.witnesses[p[1]][p[2]] = (@ + 1) % 128] :
        p \in { q \in (1..Len(submitted.tx.witnesses)) \X (1..128) :
                  q[2] <= Len(submitted.tx.witnesses[q[1]]) } }

\* C26 as stated: the digest absorbs the transaction hash, the init witness
\* behind its length as 8 little-endian bytes, and every further witness in
\* order behind its length; and a change of any byte of any witness of a
\* transaction the finalizer accepts changes what is absorbed
C26_AsStated ==
    (SignCalled /\ signCall.result.absorbed # NoDigest) =>
        /\ signCall.result.absorbed.hash = TxHash(signCall.locked)
        /\ LET init == WitnessArgsAsBytes(
                           [FirstWitnessArgs(signCall.locked) EXCEPT
                               !.lock = SomeBytes(Zeros(65))])
               rest == [i \in 1..(Len(signCall.locked.witnesses) - 1) |->
                           U64LE(Len(signCall.locked.witnesses[i + 1]))
                              \o signCall.locked.witnesses[i + 1]]
           IN  signCall.result.absorbed.bytes
                  = U64LE(Len(init)) \o init \o Flatten(rest)
        /\ signCall.result.absorbed = AbsorbedOf(submitted.tx)
        /\ \A changed \in ByteChanges :
              AbsorbedOf(changed) # NoDigest =>
                  AbsorbedOf(changed) # signCall.result.absorbed

(***************************************************************************)
(* The responses of the streaming sign.                                    *)
(***************************************************************************)
\* C28: the result of a streaming sign depends on the response to the final
\* chunk only.  When an earlier chunk is answered nothing of the response is
\* kept: the step is the same step for every response the device could have
\* given, and no response and no result is set.  The response to the final
\* chunk is the one that is kept, and the result is its parse.
C28_FinalResponseOnly ==
    [][ \A o \in OpIds :
          /\ (pc[o] = "exchange" /\ pc'[o] = "chunk") =>
                /\ Len(message[o]) > 0
                /\ response[o] = NoResponse
                /\ response' = response
                /\ result' = result
                /\ \A other \in ChunkResponses : ExchangeOk(o, other)
          /\ (pc[o] = "exchange" /\ pc'[o] = "parse") =>
                /\ Len(message[o]) = 0
                /\ response[o] = NoResponse
                /\ \E resp \in ChunkResponses :
                      /\ response'[o] = [some |-> TRUE, data |-> resp]
                      /\ \A other \in ChunkResponses \ {resp} :
                            ~ExchangeOk(o, other)
          /\ pc[o] = "parse" =>
                /\ response' = response
                /\ result'[o] = ParseSignature(response[o].data)
                /\ pc'[o] = (IF ParseSignature(response[o].data).tag = "Ok"
                             THEN "done" ELSE "failed")
      ]_vars

\* a sign of three chunks has returned a signature: two responses were
\* dropped before the one that was parsed
C28_Witness ==
    \E o \in OpIds :
        /\ pc[o] = "done"
        /\ Len(SignApdusOf(o)) = 3
        /\ result[o] = ParseSignature(response[o].data)
        /\ result[o].tag = "Ok"

(***************************************************************************)
(* A refresh that fails.                                                   *)
(***************************************************************************)
\* the error of a session that fails to open on this opening
OpeningError(opening) ==
    IF ~opening.ok THEN "TransportError"
    ELSE IF Len(opening.data) < 64 THEN "UnexpectedEndOfData"
    ELSE IF Len(opening.data) > 64 THEN "TrailingData"
    ELSE ""

\* C30: when the refresh of list_accounts or borrow_account gets a transport
\* but the session fails to open on it (the exchange fails or the wallet id
\* is malformed), the call returns that error and leaves the table empty,
\* whatever it held before the call; when there is no transport to open the
\* refresh succeeds with an empty table: list_accounts returns no id and
\* borrow_account does not find the account
C30_FailedRefresh ==
    [][ \A opening \in AllOpenings :
          (\/ ListAccounts(opening)
           \/ \E account_id \in CallerIds : BorrowAccount(account_id, opening)) =>
             /\ (opening.found /\ OpeningError(opening) # "") =>
                   /\ ksCall'.tag = "Err"
                   /\ ksCall'.err = OpeningError(opening)
                   /\ ksCall'.ids = {}
                   /\ discovered_devices' = {}
                   /\ borrowed' = NoMaster
             /\ ~opening.found =>
                   /\ discovered_devices' = {}
                   /\ opened' = opened
                   /\ apduLog' = apduLog
                   /\ ksCall'.op = "list_accounts" =>
                         (ksCall'.tag = "Ok" /\ ksCall'.ids = {})
                   /\ ksCall'.op = "borrow_account" =>
                         (ksCall'.tag = "Err" /\ ksCall'.err = "LedgerNotFound")
      ]_vars

\* a borrow_account has failed on the transport after an earlier one had
\* found the device and its caller had derived a handle: the table is empty
C30_Witness ==
    /\ ksCall.op = "borrow_account"
    /\ RefreshFailed
    /\ ksCall.err = "TransportError"
    /\ heldCap.bound
    /\ heldCap.master.id = ksCall.id
    /\ discovered_devices = {}

(***************************************************************************)
(* Handles and the session they hold.                                      *)
(***************************************************************************)
\* the handles the caller holds
HeldHandles == { c \in {heldCap, spareCap} : c.bound }

\* C29: a handle derived before a refresh stays bound to its session: the
\* refresh of list_accounts or borrow_account empties the table and may put
\* a new session in it, on a transport of its own, and leaves the handles
\* and the transport they hold as they are; a transport is open exactly as
\* long as the table or a handle holds it; and a clone of a handle or of a
\* session sends nothing and opens nothing
C29_HandleKeepsSession ==
    [][ /\ \A opening \in HandleOpenings :
              (\/ ListAccounts(opening)
               \/ \E account_id \in HandleIds :
                     BorrowAccount(account_id, opening)) =>
                 /\ heldCap' = heldCap
                 /\ spareCap' = spareCap
                 /\ discovered_devices' \cap discovered_devices = {}
                 /\ HandleTransports(HeldHandles) \subseteq openTransports'
                 /\ TransportsOf(discovered_devices')
                       \cap HandleTransports(HeldHandles) = {}
        /\ CloneHandle =>
              /\ spareCap' = heldCap
              /\ apduLog' = apduLog
              /\ opened' = opened
              /\ openTransports' = openTransports
        /\ (ExtendedPrivkeyOf(HandlePath) /\ ksCall'.tag = "Ok") =>
              /\ heldCap'.master = borrowed
              /\ apduLog' = apduLog
              /\ opened' = opened
        /\ openTransports' = TransportsOf(discovered_devices')
                                \cup HandleTransports({heldCap', spareCap'})
        /\ \A n \in openTransports \ openTransports' :
              /\ n \notin HandleTransports({heldCap', spareCap'})
              /\ n \in TransportsOf(discovered_devices)
                          \cup HandleTransports({heldCap, spareCap})
      ]_vars

\* the caller holds a handle and its clone on the first transport while the
\* table, refreshed since, holds a session on another
C29_Witness ==
    /\ heldCap.bound
    /\ spareCap = heldCap
    /\ heldCap.master \notin discovered_devices
    /\ discovered_devices # {}
    /\ heldCap.master.ledger_app \in openTransports
    /\ Cardinality(openTransports) = 2

(***************************************************************************)
(* Termination of the streaming sign.                                      *)
(***************************************************************************)
\* the signer has returned to its caller
SignReturned(o) == pc[o] \in {"done", "failed"}

\* C31: with a non-empty payload and a device that answers every exchange
\* the streaming sign returns after exactly ceil(|M| / 230) exchanges, never
\* sends more, and the length field of every sign APDU is the number of
\* data bytes it carries
C31_StreamTerminates ==
    /\ [](\A i \in 1..Len(SignApdusOf("op1")) :
             /\ SignApdusOf("op1")[i].length = Len(SignApdusOf("op1")[i].data)
             /\ Len(SignApdusOf("op1")[i].data) <= MAX_APDU_SIZE)
    /\ [](Len(SignApdusOf("op1"))
             <= CeilDiv(Len(wire["op1"]), MAX_APDU_SIZE))
    /\ (Len(wire["op1"]) > 0) ~>
          (/\ SignReturned("op1")
           /\ inflight = {}
           /\ Len(SignApdusOf("op1"))
                 = CeilDiv(Len(wire["op1"]), MAX_APDU_SIZE))

\* a payload of three chunks, the last one short, has been streamed in
\* three exchanges and the signer has returned
C31_Witness ==
    /\ Len(wire["op1"]) > 2 * MAX_APDU_SIZE
    /\ Len(wire["op1"]) % MAX_APDU_SIZE # 0
    /\ SignReturned("op1")
    /\ Len(SignApdusOf("op1")) = 3
    /\ \A i \in 1..3 :
          SignApdusOf("op1")[i].length = Len(SignApdusOf("op1")[i].data)
    /\ transportFaults = {}

=============================================================================
